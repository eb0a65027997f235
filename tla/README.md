# Sentinel / ClawGuard: verification project

TLA+ models of the parts of this repository whose correctness depends on the
order of things: Redis streams and their consumers, the defense agent and its
approval gate, the contracts it drives, the consensus contract, the on-chain
detector, and the browser side: the operator console with its sign-in, its live
data and its views, and the landing page. TLC checks every model on small instances; TLAPS proves the
main safety properties for every value of the constants. `PROJECT.json` holds
the component list, the runs, the source lines of every definition, the hazards
and the theorems; this file explains them.

1. [The system](#1-the-system)
2. [Components: state, operations, what makes them correct](#2-components)
3. [Modules and how they correspond to the code](#3-modules)
4. [Runs, properties and bounds](#4-runs)
5. [Fairness and deadlock](#5-fairness-and-deadlock)
6. [What is proved, and how](#6-proofs)
7. [Disagreements between code and comments](#7-findings)
8. [Abstractions and limits](#8-abstractions-and-limits)
9. [Plan](#9-plan)

## 1. The system

Two systems share the repository. **Sentinel** watches the mempool of a chain
for oracle-manipulation attacks and pauses the protocol under attack.
**ClawGuard** (`skill/`, `network/`, `learning/`) screens the input of AI agents
and shares attack patterns over a registry contract. The Sentinel pipeline:

    mempool --> detector operator --> sentinel.detection.confirmed --> defense agent
                (state machine,        (Redis stream, consumer          |  ^
                 30 s window)           group, at-least-once)           |  | sentinel.defense.approval
                                                                        |  |   (operator decisions)
      ConsensusVoting, ModelRegistry                                    v  |
      (K-of-N attestations)             policy.json --> prover --> DefenseProtocol.verifyAndExecute
                                                                        |
                                        SentinelGuard <-- PauseController.activate

Interaction is by Redis streams (every arrow between processes), by JSON-RPC
(agent to node), and by calls between contracts. Nothing is shared in memory
between processes. Inside a Python process every `await` is a point where
another coroutine, a timeout or a crash can come in; on the chain one
transaction is atomic.

The browser side (`frontend/src`) is an operator console and a landing page:

    Cognito <--requests, late answers-- sign-in --+
    FastAPI <--polls------------------- live data-+--> one store --emit--> render, frame --> stream timer
    localStorage <--session, killswitch, tokens---+      ^  ^
                                     views' own state ---+  +--- intersection observers
                                     (a re-render is a goto)

    landing page: scroll position --> act, story, rail; act 2 --> timers of the gossip wave

There every callback runs to its end; what interleaves are answers, timers,
animation frames, observers, visibility changes and the operator.

What is hard in it:

* delivery is at-least-once, per consumer *name*, and names hold the pid;
* the agent reads the policy hash, then proves, signs, sends and waits: the
  chain moves on meanwhile, a transaction may be mined after the agent gave up
  on it, or be sent twice;
* the approval gate races a timeout against a decision and lives in memory only;
* the contracts accept calls in any order from several parties, and what an
  earlier call established (quorum, policy, pause) must survive later ones;
* the detector accumulates confidence along whatever order of transactions an
  address chooses, in a window that slides;
* the store of the console is patched by whatever answer comes, also one whose
  form, view or session is gone; a reload keeps only what the browser stored;
* seven polls, a killswitch and mock data feed one screen, and each adapter
  decides by itself which of them it shows.

## 2. Components

| Component | State | Operations | Hard behaviour | What makes it correct | Status |
|---|---|---|---|---|---|
| Sentinel streams (`store/sentinel_streams`) | stream, last-delivered id, pending list per consumer name; loop position, batch | publish, start, replay of pending, poll, dispatch, XACK, stop | crash between handler and XACK, replies that are lost, eviction by MAXLEN, entries that always fail, another name after restart | nothing delivered is lost; first attempts in order; backlog before new entries; every entry handled | modelled |
| Defense agent (`blockchain/defense_agent`) | stage of the handler, open approval, policy hash and nonce in hand | take, gate, prove, check and sign, send with retries, await receipt; probe path | all of the interleavings above | what is sent was approved in its own wait; no activation under an old policy; reports match the chain; no threat holds the agent | modelled |
| Defense contracts (`DefenseProtocol`, `PauseController`, `SentinelGuard`) | policy hash, version, history, agent, one defense slot per target | initialize, updates, verifyAndExecute, activate, deactivate | updates before initialize, dev mode, second event on an active slot | append-only policy log; a defense only by the registered agent; active slots kept | partly |
| Consensus contracts (`ConsensusVoting`, `ModelRegistry`) | thresholds, slashed operators, models, accepted bundles | submitBundle, slash, setThresholds, setAdmin, registerModel | duplicates in a bundle, slash and threshold changes around acceptance, `uint8` count | one decision per event, by K distinct eligible operators, final | modelled |
| On-chain detector (`detector/on_chain`) | per address: stage, confidence, two timestamps; per address: history | evaluate on each kind of transaction, clean-up, restart | any order and repetition, window expiry, boosts and scalings, memory | every exploit call is reported, never weaker than before; old evidence does not count; memory is released | modelled |
| Lending pool, oracle pair (`VictimLendingPool`, `mocks`) | collateral, debt, totals, reserves | deposit, borrow, fund, swap | pause in force between two calls | a halted pool changes nothing; totals are sums | planned |
| Threat registry and clients (`ClawGuardRegistry`, `skill/chain/client.py`, `network/`) | attack list; local cache; poll position; rules file and its backup | publish, poll, apply, roll back | bounded poll page, restarts, nonce races, partial application | every published attack reaches every cache; rollback restores | planned |
| Secrets and rotation (`skill/config/secrets.py`, `rotate_token`) | versions and stages of a secret; TTL cache | the four rotation steps, get, invalidate | retried steps, read before and stored after a rotation | one current version; bounded staleness | planned |
| Skill intercept and API (`skill/handler.py`, `api.py`, `observability`) | database, rate-limit windows, WebSocket clients, alert state | intercept, publish, subscribe | fan-out, de-duplication, limits at a boundary | a block is recorded and published once | planned |
| Learning loop (`learning/`) | episode state, policy | episodes, policy publication | policy file and chain updated separately | partly covered: `EditPolicyFile` and `UpdatePolicy` are independent in DefenseAgent | planned |
| Async RPC client, node entrypoint, zk proof cache | pending transactions; background tasks; cached proofs | - | reconnects, start-up order | - | planned |
| Frontend sign-in (`state.js`, `login.js`, `cognito.js`) | session in store, in storage, in the SDK; the form; requests in flight | sign in, sign up, confirm, resend, codes, sign out, load, restore, and every answer | answers out of order, double submits, half-done enrolment, reloads, storage that refuses | a code goes to its challenge; the session is whose it says; a reload shows the same and a sign-out leaves nothing; no form waits for ever | modelled |
| Frontend live data (`live.js`, `api.js`, `adapters.js`) | last answer per endpoint, killswitch in store, storage and at load | seven polls, killswitch, reset at sign-in and sign-out | partial failures, snapshots of different age | the chip tells which feed is shown; the killswitch outlives sign-in and sign-out; every adapter copes with a snapshot that is gone | modelled |
| Frontend console (`dashboard.js`, `shell.js`, `views/*`, `privacy.js`) | route, drawer, menu, stream and its timer, local state of seven views | navigation, filters, sort, pages, graph, toggles, frames, visibility, observers | callbacks after the view or session they belong to; positions into filtered lists | only the operator changes the view; the stream follows the session; pseudonyms hide in a crowd; lists show what they count | partly |
| Frontend landing page (`animations.js`, `data.js`) | act, node and edge classes, pending timers, story, rail | scroll, timers, small animations | timers that outlive the scroll position | the mesh is the one of the act scrolled to | partly |
| Scoring models, cryptography, proof generation, file extractors, infrastructure, demo | - | - | - | numerics, byte layouts, third-party parsing or declarative deployment | not modelled |

## 3. Modules

| Module | Models | Notes |
|---|---|---|
| `Inbox` | *abstract*: what a subscriber of a stream expects | entries are first seen in publication order, none skipped |
| `StreamConsumer` | `consumer.py`, `publisher.py`, Redis as they use it | implements `Inbox` (`FirstAttemptsInOrder`) |
| `PolicyLog` | *abstract*: an append-only log of policy hashes with one agent | |
| `DefenseChain` | `DefenseProtocol`, `PauseController`, `SentinelGuard.isAllowed` | implements `PolicyLog` (`PolicyIsALog`) |
| `QuorumLedger` | *abstract*: an event is decided once, by a quorum of eligible operators | |
| `ConsensusVoting`, `MCConsensus` | `ConsensusVoting`, `ModelRegistry` | implements `QuorumLedger` (`DecidesByQuorum`) |
| `DefenseAgent`, `MCAgent` | the agent process *composed with* `DefenseChain` and the stream's delivery | EXTENDS `DefenseChain`; its chain steps are that module's actions |
| `Detector`, `MCDetector` | `operator.py`, `state_machine.py` | |
| `AuthSession` | `state.js` (auth), `login.js`, `cognito.js` | with a specification of its own, `AuthSpec` |
| `LiveData` | `live.js`, `api.js`, `adapters.js`, and what shell and views derive from them | |
| `ConsoleScreen` | `state.js` (the rest), `dashboard.js`, `shell.js`, the local state of `views/*.js` | |
| `MeshGraph` | `layoutNodes` of `registry.js` | operators only |
| `Privacy` | `privacy.js` and the table built with it | operators only |
| `Landing` | `animations.js`, `data.js`, `main.js` | |
| `Frontend`, `MCFrontend` | the composition of the six | implements `AuthSpec` (proved) |
| `ToastTimer` | the toast's timer against the stream's, in discrete time | |
| `StreamConsumerProofs`, `DefenseChainProofs`, `DefenseAgentProofs`, `ConsensusVotingProofs`, `DetectorProofs`, `AuthSessionProofs` | theorems about the module of that name | |
| `ViewProofs` | theorems about `Privacy`, the fleet's pages and `MeshGraph` | no variables: they hold of all data |
| `FrontendProofs` | theorems about `Frontend`, from those of `AuthSessionProofs` and `ViewProofs` | |

**StreamConsumer.** Entries are numbered in publication order. `pel[name]` is
Redis' pending list for a consumer name, `pc` the loop the process is in
(`_process_pending` or `_poll`), `batch` what is left of the current reply,
`acking` the entry between handler and XACK. `json.loads` stands outside the
`try` of `_dispatch`, so a malformed entry ends `start()` during replay and
drops the rest of the batch during polling (`ParseRaises`); a handler that
raises only skips its XACK (`HandlerRaises`). A pending entry that MAXLEN has
evicted comes back without fields (`blank`): the handler gets an empty payload
and the entry is acknowledged. An XREADGROUP for new entries may raise after Redis
has handed them out (`ReplyLost`): `_poll` logs the error and goes on, and the
entries stay pending, undispatched, until a process of this name starts again. An
error while the own pending list is read is not caught and ends `start()`
(`PendingReadRaises`).

**DefenseChain.** One action per transaction, with the guards in the order of
the `require`s: `VerdictOf` names the first one that fails. A hash of calldata
is the calldata. `learningVerifier = FALSE` is the zero verifier address, under
which an update needs only a non-empty proof. `AcceptsEmpty` tells a verifier
that rejects the empty proof from `MockGroth16Verifier`, which accepts anything.

**ConsensusVoting.** One action per transaction. `DistinctOperators` is the set
the nested loop of `submitBundle` collects; `Record` is what it stores, with
the count modulo `CountWrap` (2^8 in the contract).

**DefenseAgent.** `pc` is the await the handler stands at. Known patterns go
`Take, [GateAnswers | GateTimesOut], Prove, CheckAndSign, Send, AwaitReceipt,
Ack`; unknown ones `ProbeProver, ProbeRead, ProbeSend, ProbeReceipt, Ack`.
`OnDecision` is the second consumer of the process, `slot` the entry of
`ApprovalGate._pending`; `heard` is a history variable, the first decision read for
each threat in the current wait. `StepRaises` is any await that raises: `on_threat`
swallows it and the entry is acknowledged. `Mine` takes the agent's
transactions in nonce order at any time, also after the receipt timeout. Redis
delivery is the abstraction of StreamConsumer this module needs: queued,
delivered (by a reply that may be lost), acknowledged or - after a restart under
another name - orphaned. The name holds the pid, so `Restart` may have either: a
container may give the pid again, a host will not.

**Detector.** One action is one `Operator.evaluate` with both clean-ups.
Confidence is in basis points (the code's floats are multiples of them on the
inputs enumerated), scores in tenths, deviations in percent. Timestamps are
kept as times *since*, saturating where nothing distinguishes later times, so
the clock needs no bound. `told`, `verdict` and `quiet` are history variables.

**AuthSession.** `calls` are the requests to Cognito in flight, answered in any
order, each with the account it was sent for; `form` is `authMode`, `loginStep`,
`loginEmail`, `loginBusy` and `pendingUser`. Submit buttons are disabled while
busy, but the six-digit inputs submit by themselves and the links always work,
so requests overlap. `session.of` is the account of the tokens, `session.email`
what the screen shows. `sdk` are the tokens the Cognito library keeps. `stale`
and `late` are history: an answer came after its form was left. `LoadAuth` and
`LeaveAuth` are page loads: only what the browser stores survives. `halfDone` is
history: the SDK's tokens come from an enrolment whose second request failed.

**LiveData.** A poll reads nothing before it answers, so it is one step. `apiGet`
reports a 2xx answer without JSON as a success with null, and `Refresh` stores it
as the code does: null, or no rows for the attack feed. `atLoad` is the killswitch
the store was built with, which signing in or out restores. The adapters are
operators of the same names; `ChipTells` says what the chip promises of all of them.

**Privacy.** `PrivateTable` is a table with its pseudonyms; the attacks view filters
and searches after that, so `HidesAmong` takes the rows on screen and the table they
were counted in.

**ConsoleScreen.** `Handled` is the pattern of every view: change module-level
state, then `goto` one's own route. `frame` says that an animation frame is asked
for; `Frame` is the subscriber that starts or stops the stream. Observer entries
(`observed`) are delivered later, also when the AWS view has been left.

**Landing.** `timers` is the set of timers `applyAct(2)` arms, with the time
each is due; `TimerFires` takes the earliest. `Heard` is the loop that picks the
neighbour a peer hears from.

**Frontend.** One action per kind of event, each a conjunction of what it does to
sign-in, live data, screen and landing page: an answer with tokens starts the
store over, signing out restores the first verdicts, a reload restores
everything but storage. The parts share no variable; they meet in `Operates`,
in `Streams(SignedIn)` and in what the tables resolve to.

## 4. Runs

| Run | Question | Instance | Result |
|---|---|---|---|
| `stream_live` | in order, and every entry handled? | 1 name, 4 entries, batches of 2, 2 crashes or stops, no eviction | passes |
| `stream_hostile` | what can be lost or held back when everything goes wrong? | 2 names, 5 entries, stream of 2, entry 2 malformed, entry 3 always fails, 2 crashes, 1 transient error, 1 failed read | passes |
| `stream_reboot` | is a threat picked up after a reboot, as `approval_gate.py` says? | 2 names, 3 entries, 1 crash | violated, see 7 |
| `chain` | do policy and pause survive any sequence of transactions? | 2 accounts, 1 target, 2 events, 2 hashes, 4 versions, two defense types | passes |
| `consensus` | is a decision always a quorum's, and final? | 3 operators, 2 models, 1 event, bundles of up to 3, count wraps at 3 | passes |
| `agent_safety` | is anything activated or reported that should not be? | one gated known threat, one unknown, a verifier that accepts anything, 1 decision, 1 crash, 1 fault, 2 policy versions | passes |
| `agent_live` | is anything sent that was not approved in its own wait, and is every threat let go of? | two gated known threats, 2 decisions, 1 crash, 1 fault, one policy | passes |
| `agent_revert_reason` | does status 0 of a probe mean an invalid proof? | 2 threats, no crash, no fault | violated, see 7 |
| `detector` | is any exploit call silent, weaker than before, or based on old evidence? does memory go? | 2 senders, scores 0 and 1, deviations 0 and 5 percent, window of one tick, unbounded time | passes |
| `detector_boost` | does an exploit call after an oracle impact confirm? | deviations 1 and 5 percent | violated, see 7 |
| `frontend` | do the parts agree whatever answers, frames, timers, observers and reloads come when? | 2 accounts, 2 requests in flight, 3 feeds of up to 4 rows, answers without JSON, 5 topologies, 5 agents on pages of 2, 5 audit rows, 2 services, 6 peers; one focus at a time | passes |
| `frontend_toast` | does a toast go by itself? | delays 35 and 32, pool of 2, 3 moves | violated, see 7 |

What the properties say, and what would break them:

* `FirstAttemptsInOrder` (refinement of `Inbox`): reading a reply in another
  order, or skipping the backlog.
* `NothingLost`: acknowledging in a `finally`, or before the handler. It holds
  up to eviction: `gone` names the entries MAXLEN removed before any handler
  had their data, and a proved lemma says nothing else enters it.
* `BacklogFirst`: leaving `_process_pending` before its list is empty.
* `OnlyPoisonStarves` lists what can keep an entry from its first attempt for
  good: eviction, or one of three things that from some point on always hold. It is
  on another name's pending list (`Orphaned`); it was passed over by a process that
  polls, because its reply was lost or cut short by an entry that is not JSON
  (`PassedOver`); or it waits behind a replay that ends at an entry which is not
  JSON or always fails (`StuckInReplay`). `EveryEntryHandled` is the promise where
  none of these occurs.
* `HistoryAgrees`, `ActiveIsAuthorized`, `PolicyIsALog`, `ActiveSlotIsKept`:
  three copies of the policy, two ways to write them, and updates that come
  before `initialize`.
* `DecidesByQuorum`, `RecordsAreFinal`: duplicates in a bundle and everything an
  admin can do before and after.
* `OnlyApprovedIsSent` is about each wait: when a transaction for a gated threat
  reaches the node, the first decision read for that threat since the handler
  took it was an approval. A decision for the other threat, one read before a
  crash or after the timeout, and one after a rejection release nothing; three mutants
  drop the event id, the first decision and the refusal at the timeout. An approval published during an earlier wait and read only in this one
  does count: the gate cannot tell. `RejectedStaysOff`: timeout and rejection
  against late mining.
* `PauseHasItsThreat`, `ActivatedOncePerDelivery`,
  `ActivatesUnderCurrentPolicy`, `ReportsMatchChain`: the agent's view against
  the chain's, with late mining, lost answers and retries, under a verifier that
  accepts anything, as the shipped one does. There the probe of an unknown threat
  may pause; `PauseHasItsThreat` then still asks for a confirmed threat against that
  protocol and the transaction that did it. It and its theorem hold of a verifier
  that rejects the empty proof as well, and exclude unknown threats there.
* `EveryThreatIsReleased`: threats are handled one at a time, so one that is
  never let go of blocks all the others. It is acknowledged, whatever its outcome,
  except for two cases: the process died with it and the next one has another name
  (`orphaned`), or after an error of Redis the reply that held it or its XACK was
  lost, and nobody reads it again before another start (`PassedOver`).
* `NoExploitIsSilent`, `NeverDowngraded`, `EvidenceIsRecent`,
  `ForgottenInTime`: the detector's arithmetic, window and clean-up along any
  sequence of transactions.
* `CodeGoesToItsChallenge`, `CleanUnlessLate`, `ReloadKeepsSession`,
  `EveryAttemptEnds`: the sign-in with answers in any order. `CleanUnlessLate`
  says exactly what late answers can confuse: without one, mode, step, challenge,
  email and session belong together. `ReloadKeepsSession`, where the browser stores
  anything: the stored session is the one on screen, and tokens the SDK keeps are
  those of the stored session, so that a reload restores that session and after
  sign-out nothing. Two exceptions are in the code and are named: tokens of a
  half-done enrolment (`halfDone`), and an answer still in flight at the sign-out,
  which installs its session in store, storage and SDK alike when it comes.
* `ChipTellsFeedSource`: what tables, cards, chart, banner and topology show under
  each of the three chips, along any order of polls, failures and killswitch. Where
  the feed shown is another one than the chip's text promises, the property names
  the exception: statistics that stay without health, an empty live feed, hours that
  are all zero (section 7).
* `KillswitchOutlivesSession`: signing in and out start the store over and must not
  disarm the killswitch; it is the stored one, or the one of the page load.
* `OperatorKeepsRoute`, `ScreenFollowsSession`: who changes the view, and when
  verdicts stream, with frames and observers that come late.
* `PseudonymsHideInCrowd`: both tables as they are on screen, filtered and searched,
  whichever feed they show and whatever the stream has pushed: a pseudonym stands
  for one of at least `K_ANON` rows of the feed. Rows are what the code counts, not
  peers, and they need not be on screen (section 7).
* `ViewsShowTheirData`: positions and pages under any sequence of filters, and
  the graph of any topology the API may give.
* `MeshFollowsScroll`: scrolling in any jumps while the wave's timers run.

Why the bounds are enough. `MaxCrashes = 2` lets a crash hit a process that is
still replaying what the first crash left. `MaxFailures = 1` suffices because
one failure already leaves an entry pending, which the second crash then
replays. `MaxReadErrors = 1` loses the reply of a full or a partial batch, before and
after a crash. `Count = 2` with five entries gives partial and full batches;
`MaxLen = 2` evicts delivered and undelivered entries. Four policy versions
cover updates before and after `initialize` and a return to an earlier hash.
Bundles of three with three operators contain every pattern of duplicates the
quorum of two can be confused by, and `CountWrap = 3` puts the wrap at three
operators. In `agent_safety` one decision, crash, fault and policy update interleave
with each of the handler's steps; a fault can hit each of the three attempts'
answers. In `agent_live` two gated threats and two decisions give a decision for
the other threat, a second one on the same, and one left over from a wait that a
crash or the timeout ended; a single policy keeps it small, as neither property
depends on its content. `MaxSends` is the code's own retry limit, not a bound. In the detector
two senders are needed for the clean-up by somebody else's transaction; the
rest is per address. What depends on larger values is proved (section 6).

In `frontend` a behaviour keeps one *focus* (`MCFrontend`): sign-in, live data,
mesh, story, or one of the seven views. It restricts what the operator and the
polls start; answers, frames and observers are free in every focus, so that
nothing fair is disabled. Every action of `Frontend` starts in some focus, and
those whose order matters start in the same one: sign-in with reloads and storage
that refuses; all polls with the killswitch and sessions; the overview with
health, killswitch, stream and visibility; the AWS view with observers, navigation
and visibility; settings with health, killswitch and navigation to every view. What the foci leave out
is, say, sorting the fleet while a code is sent: the parts share no variable, and
`FrontendProofs` proves every safety property of this run without foci. Two
requests in flight give every late answer; a third changes nothing in
`AuthSession`, whose invariant was also checked with three. Feeds hold a row alone
in its window, a crowd of `K_ANON` = 2, one seat twice in a window and a dash for a
time; topologies hold
unknown ends, an edge back before the edge out, no names, no nodes and a
stranger as self. The mesh has a cycle, peers in the same ring, and one that
nothing reaches.

Every property of a passing run has a mutant in `PROJECT.json`: an operator in
the model, marked *Mutant*, that changes one definition as a plausible bug
would and under which TLC finds the property violated.

## 5. Fairness and deadlock

Weak fairness is assumed for what the event loop runs when it is ready
(reading, dispatching, acknowledging; every step of the agent's handler, whose
awaits all have timeouts) and for restarting a process that went down, which
the deployment's supervisor does. Nothing is assumed about publishing,
operators, provers, mining, faults or the passage of time. Crashes and faults
are bounded, so "eventually" means after they have stopped.

In `Frontend` only the answers of Cognito are fair: the SDK calls back with a
result or an error, as the browser ends every request. Nothing is assumed of
operator, polls, frames or observers. In `ToastTimer` time passes.

An XACK may fail and a reply may be lost; the entry then waits for another start.
`agent_live` and `stream_hostile` have such faults, and their liveness properties
say what they hold back. Faults and crashes are bounded there, so nothing stops the
rest.

`CHECK_DEADLOCK FALSE` is set where the system comes to rest: a consumer blocks
in XREADGROUP when the bounded number of entries is published and handled, and
the agent with it; and a toast dismissed away from the overview leaves no timer
once `MaxMoves` is used up. The other runs check deadlock.

## 6. Proofs

All theorems hold for every value of the constants that satisfies the modules'
`ASSUME`s, which TLC evaluates on the instances it runs. They are as weak as the
code justifies: a non-empty set of names, a positive batch size and stream
length; a zero that is no hash, account or event; a finite set of operators;
scores within 0..10; a mock feed that is not empty (`FeedAssumption`,
`mock-data.js`); a fleet of typed rows; and topologies whose nodes have ids of
their own (`MeshAssumption`: `skill/topology.py` takes the mesh from the
configured list of nodes). Two theorems have a hypothesis of their own, said with
them below. Every invariant called inductive below was first checked with TLC.

* `StreamConsumerProofs`: `ConsumerTypeCorrect`, `ConsumerNothingLost`,
  `ConsumerBacklogFirst`. `NothingLost` is not inductive: an entry is removed
  from the pending list by an XACK issued one step after its handler returned.
  `IInv` adds that the entry being acknowledged was handled or evicted, that
  replies without fields belong to evicted entries, and that `gone` holds evicted
  entries only. `BacklogFirst` needs that a non-empty pending list never yields
  an empty reply, which is the lemma `OldestNonEmpty`.
  `ConsumerAttemptsInOrder`: `Undisturbed => (Spec => FirstAttemptsInOrder)`, the
  refinement of `Inbox`. `Undisturbed` is a condition on the constants - one
  consumer name, no eviction, no malformed entry, no read that fails - under which handlers may still
  raise, XACKs fail and the process crash. Without it the order really is lost: another
  name's backlog, an evicted or unparsed entry or one whose reply was lost is passed
  over, and later ones are attempted first.
  `OrderInv` says that what was delivered is tried, or pending and in hand, with
  nothing untried before it outside the reply.
* `DefenseChainProofs`: `ChainTypeCorrect`, `ChainHistoryAgrees`,
  `ChainActiveIsAuthorized`, `ChainActiveSlotIsKept`, and `ChainImplementsLog`:
  every transaction maps to a step of `PolicyLog` or a stutter, using
  `HistoryAgrees`.
* `DefenseAgentProofs`: all of the agent's safety, for any threats, policies and
  protocols, any number of crashes, faults and decisions. None of it is inductive. `IInv` says
  of the threat in hand that it is delivered, no longer in the batch, and on the
  path of its kind (`InHand`); of decisions, that the gate's slot is what was heard
  first in this wait (`SlotIsHeard`) and that past the gate this was an approval
  (`PastGate`); of transactions, that each is the
  call for its event (`SentAreCalls`) and that the nonce in hand is the account's
  next one or that of the transaction this delivery sent already (`OwnNonce`, what
  makes a retried send harmless). `AgentActivatesOnce` then counts: `Due(e)` tells
  whether a transaction for e can still be sent without another crash, and
  `OnePerDelivery` bounds the transactions for e by the crashes so far, plus one
  when e is no longer due; activations are the receipts that took effect.
  `AgentRejectedStaysOff` needs that a rejected threat is not due and that all sent
  for it was mined without effect (`RejectedIsOver`).
  `AgentSendsOnlyApproved` needs no more than the first three.
  `AgentPauseHasItsThreat` and `AgentActivatesUnderCurrentPolicy` have no hypothesis
  about the verifier: they hold whether or not it accepts the empty proof, which
  `MockGroth16Verifier`, the only implementation of `IVerifier` in the repository, does.
  `AgentKeepsChainCoherent` and
  `AgentKeepsLogAndSlots` carry the theorems on the contracts over to the
  composition, by `AgentStepIsTransaction`.
* `ConsensusVotingProofs`: `VotingTypeCorrect`, `VotingRecordsAreFinal`, and
  `VotingDecidesByQuorum`: a submission maps to `Decide` with the distinct
  operators as the backing, everything else to `Administer` or a stutter.
* `DetectorProofs`: all five properties of `Detector`. `EntryInv` ties an
  entry's stage to the confidence it must have, to what was told about it and,
  while it lives, to its age: one more window per transition. `NoExploitIsSilent`
  rests on `ScaledBounds` (an oracle impact leaves at least three tenths of at
  least 4000), `NeverDowngraded` on the confidence never falling after an
  exploit call, `EvidenceIsRecent` on an exploit call confirming whenever 2500
  are left, so that an entry waits below the threshold at most once.
* `AuthSessionProofs`: `AuthTypes`, `CodesAnswerTheirChallenge`,
  `OnlyLateAnswersConfuse`, `SessionsSurviveReloads`, for any accounts and any
  number of requests in flight. None is inductive by itself. `IInv` adds whose
  account every request and challenge is for (`Owned`), that storage holds what
  a reload would need (`StoredWithSession`, half-done enrolments excepted), and for clean behaviours: the form
  fits mode and step, a fresh request fits the form it was sent from, and at most
  one request with a submit button is fresh (`OneButton`) - without the last, two
  sign-ins from one form could answer each other.
* `ViewProofs`, about what the views compute. `PseudonymsAlwaysHide`, for every
  table, day, `K_ANON` and window and for any of its rows that are shown: rows are counted with bucketed times and looked
  up with a time that is bucketed again; `WindowOfWindow` says that this changes
  nothing. `RanksFill`: the ranks of a finite set in a total order are 0, 1, 2 ...
  without a gap. From it `PagesAreFull` (for every fleet, filter and order, each
  page the pager allows has a row if anything matches, and never more than
  `PageSize`) and, for every topology, `NodesAreApart`. `PairsAreDrawnOnce` is a
  bijection between drawn edges and pairs of known nodes, each pair having a first
  edge; `OneEdgeAnimates` follows from it.
* `FrontendProofs`: `BrowserImplementsSignIn` (every step of the composition is a
  step of `AuthSpec` or a stutter, so the four theorems above carry over:
  `BrowserSignIn`), `ScreenIsTheSession`, `RouteIsTheOperators`, `KillswitchStays`,
  `BrowserTypes`, `ChipTellsTheFeed`, `PseudonymsStayHidden`, `ViewsShowData`.
  `ScreenFollowsSession` is an implication that a pending frame disables; its
  invariant `SInv` adds that session, route or visibility never change without asking
  for a frame or setting the timer themselves. `VInv` keeps the views in shape: the
  pager on a page there is (`ClampedIsOnPage`: every handler's render clamps), the
  opened audit row listed, the streamed table as long as it began and of typed rows
  (`PushedSequence`). With the types of the snapshots it turns `ViewProofs` into
  invariants.
  `MeshFollowsTheScroll`: `WaveReachesOnce => (Spec => []MeshFollowsScroll)`. The
  hypothesis says what the breadth-first search computes - it reaches peers of the
  mesh other than the attacked one, over edges of the mesh, each once - and is a
  statement about constants that TLC evaluates for the instance (`MCWave`). From
  it `MInv` gives, for every mesh, delays and scrolling, that timers are pending in
  the gossip act only and that the peers still untouched are those waited for.

Only model-checked: liveness (`EveryEntryHandled`, `OnlyPoisonStarves`,
`EveryThreatIsReleased`, `EveryAttemptEnds`), which needs fairness and ENABLED, and
`WaveReachesOnce`: rings, links and the neighbour a peer hears from are folds and a
recursive function, and what those compute for every input needs induction over
data, which the installed provers cannot do. Sorting and numbering in
`ConsoleScreen` and `MeshGraph` are stated with sets of positions and cardinalities
instead, so that they can be reasoned about.

## 7. Findings

* `stream_reboot`: `approval_gate.py:18-19` says that after a reboot the agent
  picks up unprocessed threats from the group's pending list. The consumer name
  holds the pid and `_process_pending` reads only its own name's list, so a
  threat in hand when the process died is never handled (nor is one the process
  had merely read). With a stable name (`stream_live`) the comment is right.
* `agent_revert_reason`: `constraint_failure.py:228-231` takes every probe mined
  with status 0 as an invalid proof. An update of the policy mined between the
  hash read and the probe makes it revert with "stale policy", and it is reported
  as `INVALID_PROOF` all the same.
* `detector_boost`: `state_machine.py:88-89` says an exploit call after an oracle
  impact always exceeds the confirmed threshold. That needs a deviation of five
  percent, as in the unit test; at the 1.0 the price lookup falls back to, the
  result is 0.76, a candidate. Without any earlier observation the same call is
  confirmed at 0.9. `NoExploitIsSilent` shows that it never falls below candidate.
* `frontend_toast`: `dashboard.js:118` says "Auto-dismiss toasts." The subscriber
  re-arms its 3500 ms on every emission, and the overview's stream emits every
  3200 ms: a toast raised there stays until the operator closes it or leaves. With a
  stream slower than the toast the property holds.

Met while modelling, taken into the models as the code has it:

* `constraint_failure.py:5-10` lets the chain refuse threats of unknown pattern:
  the probe's empty proof makes the verifier reject. The only policy verifier in
  the repository, `MockGroth16Verifier`, which `docs/BASE_SEPOLIA.md:16` wires to
  `DefenseProtocol`, returns true for every proof, and `verifyAndExecute` does not
  look at its length: the probe then is a defense, on a path that asks for no approval.
  `PauseHasItsThreat` says so: an unknown threat pauses only if the verifier
  `AcceptsEmpty`.
* `live.js:2-4` says that a failure leaves the last snapshot in place. The health
  poll sets `health` and `awsStatus` to null (lines 52-53), and an answer without JSON
  is no failure for `apiGet` (`api.js:92-96`): it is stored over statistics, network,
  topology, validators and rules (lines 63, 81, 86, 91, 96).
* `adapters.js:5-8` says the chip tells whether the data is live or mock, and
  `shell.js:148` that the API is unreachable and mock data are shown. The chip looks
  at health alone. Under a live chip the overview streams mock verdicts when the live
  feed is empty (`overview.js:266-268`) and the chart draws the mock curve when all
  hours are zero (`chart.js:36`); under the other, statistics that had arrived stay
  (`adapters.js:79, 90`). Without health the overview does not stream, as lines
  262-263 have it: `resolveVerdicts` gives the first mock verdicts (`adapters.js:74`),
  which are not empty and so are taken for live ones. `ChipTells` has all of these.
* `api.js:13` says that a stored killswitch always gives mock data. The store reads it
  at page load; signing in or out sets it back to that (`state.js:143-144, 282-283`).
  It does not reach the agents' banner, the AWS chips and the chain count of the
  registry, and the polls go on (`state.js:361`).
* `dashboard.js:17-19` says that a restore which fails falls through to the login. The
  store starts with the stored session, and `hydrateFromCognito` leaves it when
  nothing was restored (`state.js:123`): refused tokens leave the operator signed in on
  screen, after the next reload too. `ReloadKeepsSession` asks nothing of a session
  whose tokens are gone. `cognito.js:167` says a restore makes no network call; expired
  tokens are refreshed.
* A restore that ends after signing out signs in again (`state.js:120-132`), and so
  does a sign-in answered then.
* `verifyTotpSetup` has cached the tokens when setting the preferred factor fails:
  the form shows an error, and the next page load is signed in (`halfDone`).
* `privacy.js:15` and `overview.js:212` speak of peers that share a window; rows are
  counted, so one seat's rows are a crowd, and the attacks view filters afterwards, so
  one row of a crowd may be alone on screen (`attacks.js:54-62`).
* A late answer breaks the mode and step comment of `state.js:30-32`; a session
  won with a code is named after the login email at the time of the answer
  (`state.js:188, 210`).
* An observer of the AWS view that fires after navigation brings the operator back
  (`aws.js:26-61`).
* `registry.js:166` animates exactly one edge out of this node; there is none when
  that edge has an unknown end or its reverse comes first. A third validator is
  drawn over the second.
* A peer may hear the gossip from a neighbour in its own ring, whose immunity comes
  later than the flash of the edge (`animations.js:431-446`).
* `api.js` resumes a poll at its next interval, not on `visibilitychange`.

## 8. Abstractions and limits

* Payloads, hashes, signatures and proofs are model values. What a verifier
  accepts is a predicate on them; `verifyAndExecute` is modelled with
  PauseController as its target, the only one the agent encodes.
* `CheckAndSign` merges the policy comparison with fetching the nonce and
  signing: the steps between have no effect others see, and only the agent's own
  sends move the nonce. The two reads of the probe path are merged likewise.
* `Take` may pick any threat of the batch; the code takes them in order. The
  model therefore has more behaviours than the code, and safety carries over.
* Decisions on the approval stream are consumed atomically; a crash may take any
  number of them along, which over-approximates loss between read and handling.
* `AcceptsEmpty` is TRUE in `agent_safety`, as with the repository's only verifier, and
  FALSE in `agent_revert_reason`, about a probe that is rejected. In `agent_live` all
  threats are known and it plays no part. The theorems hold for both.
* The gate cannot tell in which wait an operator meant a decision: an approval
  published in an earlier wait and read in the next counts. A process that comes
  back under the name of an earlier predecessor than its last would find the orphaned
  threats again; that is not modelled, nor is the approval stream's own pending list,
  whose decisions a restart may read again while the threat waits.
* The federation coordinator that combines several operators' verdicts is named
  in the code but not part of the repository; `Confirm` stands for whoever
  publishes a confirmed threat.
* The detector's clock does not run backwards, and its networks' scores may be
  anything between 0 and 1.
* `tx_history` is kept as the set of addresses it has entries for: the contents
  only feed the sequence network.
* Ethereum reorganisations are not modelled.
* Frontend: one tab; credentials, codes, error texts and the `new_password` answer
  (an error to the store) are left out. A stored session is read back as written.
* The FNV pseudonym is an injection of seat and day: collisions of its 32 bits are
  not modelled, nor is midnight, when pages drawn earlier keep the day's names.
* An endpoint's answer is one of a few classes, or without JSON; `lastError` and
  `lastUpdate` are left out, as no view chooses by them. An answer that comes in a
  hidden tab is taken to come just before.
* The drawer is open or not: its payload is the row as it was when it opened.
  Toasts are left out of `ConsoleScreen` and modelled in `ToastTimer`, where a frame
  comes at once and the polls' emissions, which only re-arm the toast more often,
  are left out. The scroll to a settings card is no state.
* Two of the five settings stand for all; the registry's tooltip goes with its
  hovered node. The search boxes find the rows of one tag, or all.
* On the landing page positions are left out, the order of nearest peers is given,
  and `MeshGraph` keeps of an arc only each node's rank in it.

## 9. Plan

Done, in this order: StreamConsumer and Inbox; DefenseChain and PolicyLog;
DefenseAgent on top of them; ConsensusVoting and QuorumLedger; Detector; AuthSession,
LiveData, MeshGraph, Privacy, ConsoleScreen and Landing, and Frontend on top of them;
ToastTimer; proofs of every invariant and action property that a run checks.

Next, in order:

1. Proofs: what the folds of `Landing` compute (`WaveReachesOnce`), if the rings can
   be stated without them; the abstractions of section 8 that can be theorems, such
   as `Take` in batch order.
2. `ThreatNetwork`: ClawGuardRegistry, `ChainClient.publish_attack` and
   `poll_recent`, the poller, the local cache and `apply_defense_bundle` with
   rollback; abstract specification: a shared, growing set of patterns.
3. `TokenRotation`: the four rotation steps as Secrets Manager calls them, retried
   and interleaved with `SecretsManager.get` and its cache.
4. `LendingPool`, extending `DefenseChain` and taking over its run;
   `isAllowedEnhanced` with the registry.
5. Skill API: rate limiter, alert de-duplication, WebSocket fan-out; the intercept
   path with its database.

### Not modelled

The trained scoring models, signing and proof generation are numerics and byte
layouts; the file extractors call parsers of third parties; infrastructure and demo
are declarative or scripts. Of the frontend, icons, navigation bar, hero, footer and
demo are static markup; reveals, bars and the hero's canvas draw and keep no state
that anything else reads; `forgotPassword` and `confirmNewPassword` are called by
nothing, and no poll asks for the admin token of `api.js`.
