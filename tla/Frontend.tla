------------------------------ MODULE Frontend ------------------------------
(* The browser side: the landing page and the operator console.  The console *)
(* composes the sign-in (AuthSession), the live snapshots (LiveData) and the *)
(* screen (ConsoleScreen) through the one store they share; on the landing   *)
(* page only the animations run, and the console's parts are at rest with    *)
(* what the browser stores.                                                  *)
EXTENDS AuthSession, LiveData, ConsoleScreen, MeshGraph, Privacy, Landing

ASSUME OneMockFeed ==
    VerdictPool = VERDICT_POOL /\ FirstVerdicts = INITIAL_VERDICTS

Rows == [time : {NoTime} \cup Nat, agent : STRING, mod : STRING,
         verdict : STRING, tag : STRING]

ASSUME FeedAssumption ==
    /\ {VerdictPool, FirstVerdicts} \cup Feeds \subseteq Seq(Rows)
    /\ FirstVerdicts # <<>>

ASSUME MeshAssumption ==
    \A t \in Topologies \cup {MOCK_TOPOLOGY} :
        /\ t = [self |-> t.self, nodes |-> t.nodes, edges |-> t.edges]
        /\ IsTopology(t)

vars == <<authVars, liveVars, screenVars, landingVars>>

SignedIn == session # None
AtConsole == Console /\ ~hidden
Operates == AtConsole /\ SignedIn

(***************************************************************************)
(* Signing in and out.                                                     *)
(***************************************************************************)
FillForm ==
    /\ AtConsole
    /\ Operator /\ Notice
    /\ UNCHANGED <<liveVars, landingVars>>

AskAgain ==
    /\ AtConsole
    /\ ResendConfirmation
    /\ UNCHANGED <<liveVars, screenVars, landingVars>>

\* Tokens start the store over; any other answer patches the form.
CognitoAnswers(c) ==
    /\ \/ Granted(c) /\ ResetLive /\ ScreenSignedIn
       \/ NotGranted(c) /\ Notice /\ UNCHANGED liveVars
       \/ RestoreFailed(c) /\ UNCHANGED <<liveVars, screenVars>>
    /\ UNCHANGED landingVars

LeaveSession ==
    /\ Operates /\ (menu \/ route = "settings")
    /\ SignOut /\ ResetLive /\ ScreenSignedOut
    /\ UNCHANGED landingVars

(***************************************************************************)
(* Live data.  A poll does not start while the tab is hidden; one whose      *)
(* answer comes in a hidden tab is taken to answer just before.              *)
(***************************************************************************)
PollHealth ==
    /\ AtConsole
    /\ RefreshHealth /\ Notice
    /\ UNCHANGED <<authVars, landingVars>>

Poll(e) ==
    /\ AtConsole
    /\ Refresh(e) \/ RefreshFailed(e)
    /\ Notice
    /\ UNCHANGED <<authVars, landingVars>>

Killswitch ==
    /\ Operates
    /\ ToggleMockForced(storage) /\ Notice
    /\ UNCHANGED <<authVars, landingVars>>

(***************************************************************************)
(* The screen.                                                             *)
(***************************************************************************)
Elsewhere == UNCHANGED <<authVars, liveVars, landingVars>>

GraphNodes == IF ResolveTopology = Unset THEN {} ELSE Ids(ResolveTopology)
GraphNeighbors == [n \in GraphNodes |-> NeighborsOf(ResolveTopology, n)]

\* The tables of verdicts: attacks.js filters and searches what is private.
OverviewPrivate == PrivateTable(OverviewTable(stream.verdicts), "today")
AttacksPrivate == PrivateTable(ResolveVerdictPool, "today")
AttacksShown ==
    LET a == views.attacks
    IN  Restrict(AttacksPrivate,
                 {i \in DOMAIN AttacksPrivate :
                     /\ a.filter \in {"all", AttacksPrivate[i].verdict}
                     /\ a.search \in {"", AttacksPrivate[i].tag}})

Goes(v) == Operates /\ Navigate(v) /\ Elsewhere

Clicks ==
    /\ Operates
    /\ OpenDrawer \/ CloseDrawer \/ ToggleUserMenu \/ CloseUserMenu \/ Notice
    /\ Elsewhere

UsesView ==
    /\ Operates
    /\ \/ AttacksHandler
       \/ RegistryHandler(GraphNodes, GraphNeighbors)
       \/ AgentsHandler \/ AuditHandler \/ SettingsHandler \/ AwsHandler
    /\ Elsewhere

Scrolls == Operates /\ Intersect /\ Elsewhere
ObserverDelivers == Console /\ (SpyDelivered \/ RevealDelivered) /\ Elsewhere

StreamTicks == Console /\ Tick /\ Elsewhere
AnimationFrame == Console /\ Frame(SignedIn) /\ Elsewhere
Visibility == Console /\ (Hide \/ Show(SignedIn)) /\ Elsewhere

(***************************************************************************)
(* Pages.                                                                  *)
(***************************************************************************)
OpenConsole ==
    /\ ~hidden
    /\ LoadAuth /\ LoadLive /\ LoadScreen /\ LoadLanding

OpenLanding ==
    /\ ~hidden
    /\ LeaveAuth /\ LoadLive /\ LoadScreen /\ LoadLanding

Animates ==
    /\ page = "landing"
    /\ \/ \E p \in 0 .. Scale : ScrollNetwork(p) \/ ScrollStory(p) \/ ScrollRail(p)
       \/ \E t \in timers : TimerFires(t)
       \/ RevealSpecimen \/ Annotate \/ ScrollInOrOut \/ NextSlide \/ Flash
    /\ UNCHANGED <<authVars, liveVars, screenVars>>

(***************************************************************************)
(* The specification.                                                      *)
(***************************************************************************)
Init == AuthInit /\ LiveInit /\ ScreenInit /\ LandingInit

Next ==
    \/ FillForm \/ AskAgain \/ LeaveSession
    \/ \E c \in CallId : CognitoAnswers(c)
    \/ PollHealth \/ (\E e \in Endpoint : Poll(e)) \/ Killswitch
    \/ (\E v \in Routes : Goes(v)) \/ Clicks \/ UsesView
    \/ Scrolls \/ ObserverDelivers
    \/ StreamTicks \/ AnimationFrame \/ Visibility
    \/ OpenConsole \/ OpenLanding \/ Animates

\* A request to Cognito is answered or fails at last.
Fairness == \A c \in CallId : WF_vars(CognitoAnswers(c))

Spec == Init /\ [][Next]_vars /\ Fairness

(***************************************************************************)
(* Properties.                                                             *)
(***************************************************************************)

\* Type correctness of every part.
TypeOK == AuthTypeOK /\ LiveTypeOK /\ ScreenTypeOK /\ LandingTypeOK

\* The chip in the top bar tells which feed is on screen, but for an empty live
\* feed and statistics of zero (adapters.js, chart.js, overview.js, shell.js).
ChipTellsFeedSource == ChipTells(stream.verdicts)

\* The killswitch outlives signing in and out and a reload (state.js, api.js).
KillswitchOutlivesSession == KillswitchIsKept(storage)

\* Neither table of verdicts shows a pseudonym for a row whose window and
\* modality fewer than K_ANON rows of the feed share, whichever feed it is,
\* whatever the stream has pushed out of the overview, and whatever rows of the
\* attacks view filter and search leave.  The crowd is one of rows of the feed:
\* neither of peers nor of rows on screen (privacy.js, attacks.js, overview.js).
PseudonymsHideInCrowd ==
    /\ HidesAmong(AttacksShown, AttacksPrivate)
    /\ HidesAmong(OverviewPrivate, OverviewPrivate)

\* Nothing but the operator changes the view, except that a late observer of
\* the AWS view brings it back (state.js, views/*.js, aws.js).
OperatorKeepsRoute ==
    SignedIn => route = chosen \/ (pulled /\ route = "aws")

\* Once the frame a change asked for has been drawn, verdicts stream exactly
\* on the overview of a signed-in operator, never in a hidden tab; a drawer
\* is open only over the view whose row it shows, and no menu outlives the
\* session (dashboard.js, shell.js).
ScreenFollowsSession ==
    /\ ~frame /\ ~hidden /\ Console => (ticker <=> Streams(SignedIn))
    /\ ticker => ~hidden /\ ~reduced
    /\ drawer => SignedIn /\ route \in {"overview", "attacks"}
    /\ menu => SignedIn

\* The registry draws the topology it is given, and the tables list what
\* their filters let through (registry.js, audit.js, agents.js).
ViewsShowTheirData ==
    /\ ViewsShowTheirRows
    /\ LET t == ResolveTopology
       IN  t # Unset => NodesApart(t) /\ EachPairOnce(t) /\ AnimatedEdge(t)

=============================================================================
