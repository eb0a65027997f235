------------------------------ MODULE LiveData ------------------------------
(* The console's live snapshots: the seven polls of the FastAPI backend      *)
(* (live.js, api.js), the mock killswitch, and the adapters that choose for  *)
(* every view between the last answer and the mock data (adapters.js).  A    *)
(* poll reads nothing before it answers, so a poll is one step.              *)
EXTENDS Integers, Sequences, Functions

CONSTANTS
    Unset,          \* null: no answer yet, or one without JSON
    Feeds,          \* attack feeds the API may answer with (sequences of rows)
    Topologies,     \* topologies the API may answer with
    NoId,           \* the empty id an edge may have
    MOCK_TOPOLOGY,  \* the mesh shown under the killswitch
    VERDICT_POOL,   \* the mock attack feed
    INITIAL_VERDICTS, \* the mock verdicts of the overview
    OverviewRows,   \* rows of the live feed on the overview (16)
    FeedRows        \* rows of the live feed on the attacks view (50)

VARIABLES
    live,       \* the last answer of every endpoint
    forced,     \* state.live.mockForced
    atLoad,     \* mockForced as the store was built with at page load
    killswitch  \* the killswitch in localStorage

liveVars == <<live, forced, atLoad, killswitch>>

\* What an endpoint can answer with, abstracted to what the views tell apart:
\* statistics that are all zero or not, validators that are available or not.
Answers == [health |-> {"up"}, stats |-> {"zero", "busy"}, attacks |-> Feeds,
            network |-> {"nodes"}, topology |-> Topologies,
            validators |-> {"available", "unavailable"},
            awsStatus |-> {"wired"}, learning |-> {"rules"}]
Endpoint == DOMAIN Answers

ASSUME LiveAssumption == OverviewRows \in Nat /\ FeedRows \in Nat

DEFAULTS == [e \in Endpoint |-> IF e = "attacks" THEN <<>> ELSE Unset]

(***************************************************************************)
(* The polls.  Network, topology, validators and learning ignore a failure; *)
(* stats and attacks note the error; health and AWS share one poll.         *)
(***************************************************************************)
RefreshHealth ==
    /\ \E h \in Answers.health \cup {Unset}, a \in Answers.awsStatus \cup {Unset} :
         live' = [live EXCEPT !.health = h, !.awsStatus = a]
    /\ UNCHANGED <<forced, atLoad, killswitch>>

\* An answer without JSON is no failure: it is stored as null, or for the
\* attack feed as an empty one.
Refresh(e) ==
    /\ e \notin {"health", "awsStatus"}
    /\ \E answer \in Answers[e] \cup {DEFAULTS[e]} :
         live' = [live EXCEPT ![e] = answer]
    /\ UNCHANGED <<forced, atLoad, killswitch>>

\* A failed poll of stats or attacks patches the error only.
RefreshFailed(e) ==
    /\ e \in {"stats", "attacks"}
    /\ UNCHANGED liveVars

ToggleMockForced(storage) ==
    /\ forced' = ~forced
    /\ killswitch' = IF storage THEN forced' ELSE killswitch
    /\ UNCHANGED <<live, atLoad>>

\* Mutant: the store starts over without a look at the killswitch.
ResetLiveUnforced ==
    /\ live' = DEFAULTS
    /\ forced' = FALSE
    /\ UNCHANGED <<atLoad, killswitch>>

\* Signing in or out spreads the store's initial state, killswitch included.
ResetLive ==
    /\ live' = DEFAULTS
    /\ forced' = atLoad
    /\ UNCHANGED <<atLoad, killswitch>>

LoadLive ==
    /\ live' = DEFAULTS
    /\ atLoad' = killswitch
    /\ forced' = killswitch
    /\ UNCHANGED killswitch

LiveInit ==
    /\ live = DEFAULTS
    /\ forced = FALSE /\ atLoad = FALSE /\ killswitch = FALSE

(***************************************************************************)
(* The adapters.                                                           *)
(***************************************************************************)
Reached(e) == live[e] # Unset
Head1(s, n) == SubSeq(s, 1, IF Len(s) < n THEN Len(s) ELSE n)

ResolveVerdicts ==
    IF forced \/ ~Reached("health") THEN INITIAL_VERDICTS
    ELSE Head1(live.attacks, OverviewRows)

\* The overview falls back to the streamed verdicts, never to an empty table.
OverviewTable(streamed) ==
    IF forced \/ ResolveVerdicts = <<>> THEN streamed ELSE ResolveVerdicts

\* Mutant: the attacks view does not look at the killswitch.
ResolveVerdictPoolUnforced ==
    IF ~Reached("health") THEN VERDICT_POOL ELSE Head1(live.attacks, FeedRows)

ResolveVerdictPool ==
    IF forced \/ ~Reached("health") THEN VERDICT_POOL
    ELSE Head1(live.attacks, FeedRows)

\* KPI cards and modalities: the statistics count as live without health.
Source(e) == IF forced \/ ~(Reached(e) \/ Reached("health")) THEN "mock"
             ELSE "live"
ResolveOverviewStats == Source("stats")
ResolveModalities == Source("stats")

\* The chart: hours that are all zero are drawn from the mock curve.
ResolveHourly == Source("stats")
HourlyChart == IF ResolveHourly = "live" /\ live.stats = "busy" THEN "live"
               ELSE "mock"

ResolveValidators == IF forced THEN "available" ELSE live.validators
ValidatorCount == IF ResolveValidators = "available" THEN "listed" ELSE "dash"

\* Edges without both ends are dropped; an empty mesh shows as not yet known.
ResolveTopology ==
    IF forced THEN MOCK_TOPOLOGY
    ELSE IF ~Reached("topology") THEN Unset
    ELSE IF live.topology.nodes = <<>> THEN Unset
    ELSE [live.topology EXCEPT !.edges =
            Restrict(@, {i \in DOMAIN @ : NoId \notin {@[i].from, @[i].to}})]

FleetBanner == IF Reached("network") \/ Reached("health") THEN "live"
               ELSE "synthesized"

LiveStatusChip == IF forced THEN "warn" ELSE IF Reached("health") THEN "ok" ELSE "idle"

(***************************************************************************)
(* Properties.                                                             *)
(***************************************************************************)
\* Type correctness of the snapshots.
LiveTypeOK ==
    /\ DOMAIN live = Endpoint
    /\ \A e \in Endpoint : live[e] \in Answers[e] \cup {DEFAULTS[e]}
    /\ forced \in BOOLEAN /\ atLoad \in BOOLEAN /\ killswitch \in BOOLEAN

\* What the chip in the top bar says of the tables, cards and chart under it.
\* Under the killswitch everything is mock.  With health the attack feed is the
\* API's even when it is empty, but an overview without a live row falls back
\* to the streamed verdicts and a chart without a live block to the mock curve.
\* Without health the tables are mock, and statistics that had arrived stay.
ChipTells(streamed) ==
    CASE LiveStatusChip = "warn" ->
             /\ ResolveVerdictPool = VERDICT_POOL
             /\ OverviewTable(streamed) = streamed
             /\ ResolveOverviewStats = "mock" /\ ResolveModalities = "mock"
             /\ HourlyChart = "mock"
             /\ ResolveTopology = MOCK_TOPOLOGY
             /\ ValidatorCount = "listed"
      [] LiveStatusChip = "ok" ->
             /\ ResolveVerdictPool = Head1(live.attacks, FeedRows)
             /\ LET rows == Head1(live.attacks, OverviewRows)
                IN  OverviewTable(streamed) = IF rows = <<>> THEN streamed ELSE rows
             /\ ResolveOverviewStats = "live" /\ ResolveModalities = "live"
             /\ HourlyChart = "mock" => live.stats # "busy"
             /\ FleetBanner = "live"
      [] LiveStatusChip = "idle" ->
             /\ ResolveVerdictPool = VERDICT_POOL
             /\ OverviewTable(streamed) = INITIAL_VERDICTS
             /\ ResolveOverviewStats = "live" => Reached("stats")
             /\ HourlyChart = "live" => Reached("stats")

\* The killswitch in force is the stored one, or the one the page was loaded
\* with when a sign-in or a sign-out has started the store over since: nothing
\* else arms or disarms it (state.js, api.js).
KillswitchIsKept(storage) == storage => forced \in {killswitch, atLoad}

=============================================================================
