--------------------------- MODULE FrontendProofs ---------------------------
(* The console as a whole implements the sign-in on its own, so that what is *)
(* proved of the sign-in holds of the console; and chip, killswitch, tables  *)
(* and screen keep to what it shows.                                         *)
EXTENDS Frontend, AuthSessionProofs, ViewProofs

\* Every action of the browser is an action of the sign-in or leaves it alone.
LEMMA StepImplements == [Next]_vars => [AuthNext]_authVars
<1> SUFFICES ASSUME [Next]_vars PROVE AuthNext \/ UNCHANGED authVars
  OBVIOUS
<1>1. CASE FillForm \/ AskAgain \/ LeaveSession \/ OpenConsole \/ OpenLanding
  BY <1>1 DEF FillForm, AskAgain, LeaveSession, OpenConsole, OpenLanding, AuthNext
<1>2. ASSUME NEW c \in CallId, CognitoAnswers(c)
      PROVE  AuthNext
  BY <1>2 DEF CognitoAnswers, AuthNext
<1>3. ASSUME NEW e \in Endpoint, Poll(e)
      PROVE  UNCHANGED authVars
  BY <1>3 DEF Poll
<1>4. CASE PollHealth \/ Killswitch
  BY <1>4 DEF PollHealth, Killswitch
<1>5. ASSUME NEW v \in Routes, Goes(v)
      PROVE  UNCHANGED authVars
  BY <1>5 DEF Goes, Elsewhere
<1>6. CASE Clicks \/ UsesView \/ Scrolls \/ ObserverDelivers \/ StreamTicks
           \/ AnimationFrame \/ Visibility
  BY <1>6 DEF Clicks, UsesView, Scrolls, ObserverDelivers, StreamTicks,
              AnimationFrame, Visibility, Elsewhere
<1>7. CASE Animates
  BY <1>7 DEF Animates
<1>8. CASE UNCHANGED vars
  BY <1>8 DEF vars
<1> QED
  BY <1>1, <1>2, <1>3, <1>4, <1>5, <1>6, <1>7, <1>8 DEF Next

\* The browser, with its screen and its polls, implements the sign-in.
THEOREM BrowserImplementsSignIn == Spec => AuthSpec
<1>1. Init => AuthInit
  BY DEF Init
<1> QED
  BY <1>1, StepImplements, PTL DEF Spec, AuthSpec


\* What was proved of the sign-in holds of the browser.
THEOREM BrowserSignIn ==
    Spec => [](AuthTypeOK /\ CodeGoesToItsChallenge /\ CleanUnlessLate /\ ReloadKeepsSession)
BY BrowserImplementsSignIn, AuthTypes, CodesAnswerTheirChallenge, OnlyLateAnswersConfuse,
   SessionsSurviveReloads, PTL

(***************************************************************************)
(* The screen.                                                             *)
(***************************************************************************)
Flags == /\ drawer \in BOOLEAN /\ menu \in BOOLEAN /\ ticker \in BOOLEAN
         /\ frame \in BOOLEAN /\ hidden \in BOOLEAN /\ reduced \in BOOLEAN
         /\ pulled \in BOOLEAN

Routed == route = chosen \/ (pulled /\ route = "aws")

Streaming ==
    /\ ~frame /\ ~hidden /\ Console => (ticker <=> Streams(SignedIn))
    /\ ticker => ~hidden /\ ~reduced

Covers ==
    /\ drawer => SignedIn /\ route \in {"overview", "attacks"}
    /\ menu => SignedIn

SInv == Flags /\ Routed /\ Streaming /\ Covers

\* A step that only emits (toasts, patches of the store) asks for a frame.
LEMMA NoticeKeeps ==
    ASSUME SInv, Notice, Console' = Console, SignedIn => SignedIn'
    PROVE  SInv'
BY DEF SInv, Flags, Routed, Streaming, Covers, Notice, Emit, streamVars

\* Where the store starts over, it starts on the overview.
LEMMA LandedKeeps ==
    ASSUME SInv, Landed, ticker' = ticker \/ ticker' = FALSE, UNCHANGED <<hidden, reduced>>
    PROVE  SInv'
<1>1. hidden' = hidden /\ reduced' = reduced /\ frame'
  BY DEF Landed, Emit
<1>2. Flags'
  BY <1>1 DEF SInv, Flags, Landed, Emit
<1>3. Streaming'
  BY <1>1 DEF SInv, Flags, Streaming
<1>4. Routed' /\ Covers'
  BY DEF Landed, Routed, Covers
<1> QED
  BY <1>2, <1>3, <1>4 DEF SInv

\* Going to a view closes drawer and menu (goto in state.js).
LEMMA GotoKeeps ==
    ASSUME SInv, NEW v, Goto(v), UNCHANGED streamVars,
           \/ chosen' = v /\ pulled' = FALSE
           \/ route = v /\ UNCHANGED <<chosen, pulled>>
           \/ v = "aws" /\ pulled' = (chosen # "aws") /\ UNCHANGED chosen
    PROVE  SInv'
BY DEF SInv, Flags, Routed, Streaming, Covers, Goto, Emit, streamVars

\* A view's handler goes to the view it is on (views/*.js).
LEMMA HandledKeeps ==
    ASSUME SInv, NEW v, NEW s, Handled(v, s)
    PROVE  SInv'
BY GotoKeeps DEF Handled, Rerender


\* Every step keeps the screen's invariant.
LEMMA ScreenStep == ASSUME IInv, SInv, Next PROVE SInv'
<1>1. CASE FillForm
  <2>1. Console' = Console /\ ~SignedIn
    BY <1>1 DEF FillForm, Operator, SetAuthMode, ResetLogin, BeginSignIn, BeginSignUp,
       Begin, ConfirmSignUp, SubmitTotp, SubmitTotpSetup, SubmitCode, LoginShown,
       SignedIn, Console
  <2> QED
    BY <1>1, <2>1, NoticeKeeps DEF FillForm
<1>2. CASE AskAgain
  BY <1>2 DEF AskAgain, ResendConfirmation, SInv, Flags, Routed, Streaming, Covers,
     screenVars, streamVars, Streams, SignedIn, Console
<1>3. CASE LeaveSession
  BY <1>3, LandedKeeps DEF LeaveSession, ScreenSignedOut
<1>4. ASSUME NEW c \in CallId, CognitoAnswers(c)
      PROVE  SInv'
  <2>1. CASE Granted(c) /\ ScreenSignedIn
    BY <2>1, LandedKeeps DEF ScreenSignedIn, streamVars
  <2>2. CASE NotGranted(c) /\ Notice
    <3>1. Console' = Console
      BY <2>2 DEF NotGranted, SignInChallenged, SignedUp, SignUpConfirmed, Refused,
         SetupHalfDone, ResendAnswered, Restored, Console
    <3>2. SignedIn => SignedIn'
      <4>1. CASE Restored(c)
        <5>1. calls[c].for \in Account
          BY <4>1, AskedTypes DEF IInv, Owned, Restored, Asked
        <5>2. session' \in Session
          BY <4>1, <5>1 DEF Restored, Own, Session, Person
        <5> QED
          BY <5>2, AuthAssumption DEF SignedIn
      <4> QED
        BY <2>2, <4>1 DEF NotGranted, SignInChallenged, SignedUp, SignUpConfirmed, Refused,
           SetupHalfDone, ResendAnswered, SignedIn
    <3> QED
      BY <2>2, <3>1, <3>2, NoticeKeeps
  <2>3. CASE RestoreFailed(c) /\ UNCHANGED screenVars
    BY <2>3 DEF RestoreFailed, SInv, Flags, Routed, Streaming, Covers,
       screenVars, streamVars, Streams, SignedIn, Console
  <2> QED
    BY <1>4, <2>1, <2>2, <2>3 DEF CognitoAnswers
<1>5. CASE PollHealth \/ (\E e \in Endpoint : Poll(e)) \/ Killswitch
  <2>1. Notice /\ UNCHANGED <<page, session>>
    BY <1>5 DEF PollHealth, Poll, Killswitch, authVars
  <2> QED
    BY <2>1, NoticeKeeps DEF Console, SignedIn
<1>6. ASSUME NEW v \in Routes, Goes(v)
      PROVE  SInv'
  BY <1>6, GotoKeeps DEF Goes, Navigate
<1>7. CASE Clicks
  <2>1. SignedIn /\ SignedIn' /\ Console' = Console
    BY <1>7 DEF Clicks, Operates, Elsewhere, authVars, SignedIn, Console
  <2>2. CASE Notice
    BY <2>1, <2>2, NoticeKeeps
  <2>3. CASE OpenDrawer
    BY <2>1, <2>3 DEF OpenDrawer, SInv, Flags, Routed, Streaming, Covers, Emit, streamVars
  <2>4. CASE CloseDrawer
    BY <2>1, <2>4 DEF CloseDrawer, SInv, Flags, Routed, Streaming, Covers, Emit, streamVars
  <2>5. CASE ToggleUserMenu
    BY <2>1, <2>5 DEF ToggleUserMenu, SInv, Flags, Routed, Streaming, Covers, Emit, streamVars
  <2>6. CASE CloseUserMenu
    BY <2>1, <2>6 DEF CloseUserMenu, SInv, Flags, Routed, Streaming, Covers, Emit, streamVars
  <2> QED
    BY <1>7, <2>2, <2>3, <2>4, <2>5, <2>6 DEF Clicks
<1>8. CASE UsesView
  <2>1. PICK v, s : Handled(v, s)
    BY <1>8 DEF UsesView, AttacksHandler, RegistryHandler, AgentsHandler, AuditHandler,
       SettingsHandler, AwsHandler
  <2> QED
    BY <2>1, HandledKeeps
<1>9. CASE Scrolls
  BY <1>9 DEF Scrolls, Intersect, Elsewhere, authVars, SInv, Flags, Routed, Streaming,
     Covers, streamVars, Streams, SignedIn, Console
<1>10. CASE ObserverDelivers
  <2>1. CASE Pull
    BY <2>1, GotoKeeps DEF Pull
  <2>2. CASE UNCHANGED <<route, drawer, menu, streamVars, frame, chosen, pulled>>
    BY <1>10, <2>2 DEF ObserverDelivers, Elsewhere, authVars, SInv, Flags, Routed, Streaming,
       Covers, streamVars, Streams, SignedIn, Console
  <2> QED
    BY <1>10, <2>1, <2>2 DEF ObserverDelivers, SpyDelivered, RevealDelivered
<1>11. CASE StreamTicks
  BY <1>11 DEF StreamTicks, Tick, Emit, Elsewhere, authVars, SInv, Flags, Routed, Streaming,
     Covers, SignedIn, Console
<1>12. CASE AnimationFrame \/ Visibility
  <2>1. UNCHANGED <<page, session, route, drawer, menu, reduced, chosen, pulled>>
    BY <1>12 DEF AnimationFrame, Visibility, Frame, Hide, Show, Elsewhere, authVars
  <2>2. Routed' /\ Covers'
    BY <2>1 DEF SInv, Routed, Covers, SignedIn
  <2>3. Streams(SignedIn)' = Streams(SignedIn) /\ Console' = Console
    BY <2>1 DEF Streams, SignedIn, Console
  <2>4. Streams(SignedIn) \in BOOLEAN /\ (Streams(SignedIn) => ~reduced)
    BY DEF Streams
  <2> HIDE DEF SInv
  <2>5. CASE Frame(SignedIn)
    <3>1. ticker' = Streams(SignedIn) /\ frame' = FALSE /\ hidden' = hidden /\ ~hidden
      BY <2>5 DEF Frame
    <3> QED
      BY <2>1, <2>2, <2>3, <2>4, <3>1 DEF SInv, Flags, Streaming
  <2>6. CASE Hide
    <3>1. ticker' = FALSE /\ hidden' = TRUE /\ frame' = frame
      BY <2>6 DEF Hide
    <3> QED
      BY <2>1, <2>2, <3>1 DEF SInv, Flags, Streaming
  <2>7. CASE Show(SignedIn)
    <3>1. ticker' = Streams(SignedIn) /\ hidden' = FALSE /\ frame' = frame
      BY <2>7 DEF Show
    <3> QED
      BY <2>1, <2>2, <2>3, <2>4, <3>1 DEF SInv, Flags, Streaming
  <2> QED
    BY <1>12, <2>5, <2>6, <2>7 DEF AnimationFrame, Visibility
<1>13. CASE OpenConsole \/ OpenLanding
  BY <1>13, LandedKeeps DEF OpenConsole, OpenLanding, LoadScreen
<1>14. CASE Animates
  BY <1>14 DEF Animates, authVars, SInv, Flags, Routed, Streaming,
     Covers, screenVars, streamVars, Streams, SignedIn, Console
<1> QED
  BY <1>1, <1>2, <1>3, <1>4, <1>5, <1>6, <1>7, <1>8, <1>9, <1>10, <1>11, <1>12, <1>13,
     <1>14 DEF Next


\* The screen's invariant holds of every behaviour of the browser.
LEMMA ScreenInvariant == Spec => []SInv
<1>1. Init => SInv
  BY DEF Init, AuthInit, ScreenInit, SInv, Flags, Routed, Streaming, Covers, Console
<1>2. IInv /\ SInv /\ [Next]_vars => SInv'
  <2> SUFFICES ASSUME IInv, SInv, [Next]_vars PROVE SInv'
    OBVIOUS
  <2>1. CASE UNCHANGED vars
    BY <2>1 DEF vars, authVars, SInv, Flags, Routed, Streaming, Covers, screenVars,
       streamVars, Streams, SignedIn, Console
  <2> QED
    BY <2>1, ScreenStep
<1> QED
  BY <1>1, <1>2, BrowserImplementsSignIn, AuthInvariant, PTL DEF Spec

\* Verdicts stream exactly on the overview of a signed-in operator once the
\* frame is drawn, and neither drawer nor menu outlives what it belongs to
\* (dashboard.js, shell.js).
THEOREM ScreenIsTheSession == Spec => []ScreenFollowsSession
<1>1. SInv => ScreenFollowsSession
  BY DEF SInv, Streaming, Covers, ScreenFollowsSession
<1> QED
  BY <1>1, ScreenInvariant, PTL

\* Nothing but the operator and the observers of the AWS view changes the
\* view on screen (state.js, aws.js).
THEOREM RouteIsTheOperators == Spec => []OperatorKeepsRoute
<1>1. SInv => OperatorKeepsRoute
  BY DEF SInv, Routed, OperatorKeepsRoute
<1> QED
  BY <1>1, ScreenInvariant, PTL

(***************************************************************************)
(* The live snapshots.                                                     *)
(***************************************************************************)

\* Type correctness of the snapshots: every poll stores what its endpoint can
\* answer, and starting over stores what was there before any answer.
LEMMA LiveTypes == ASSUME LiveTypeOK, Next PROVE LiveTypeOK'
<1>1. CASE UNCHANGED liveVars
  BY <1>1 DEF LiveTypeOK, liveVars
<1>2. CASE live' = DEFAULTS /\ forced' \in BOOLEAN /\ atLoad' \in BOOLEAN
           /\ killswitch' \in BOOLEAN
  BY <1>2 DEF LiveTypeOK, DEFAULTS
<1>3. CASE RefreshHealth
  <2>1. PICK h \in Answers.health \cup {Unset}, a \in Answers.awsStatus \cup {Unset} :
          live' = [live EXCEPT !.health = h, !.awsStatus = a]
    BY <1>3 DEF RefreshHealth
  <2>2. DEFAULTS["health"] = Unset /\ DEFAULTS["awsStatus"] = Unset
    BY DEF DEFAULTS, Endpoint, Answers
  <2>3. DOMAIN live' = Endpoint
    BY <2>1 DEF LiveTypeOK
  <2>4. \A e \in Endpoint : live'[e] \in Answers[e] \cup {DEFAULTS[e]}
    <3> SUFFICES ASSUME NEW e \in Endpoint
                 PROVE  live'[e] \in Answers[e] \cup {DEFAULTS[e]}
      OBVIOUS
    <3>1. CASE e = "health"
      <4>1. live'["health"] = h
        BY <2>1, <3>1 DEF LiveTypeOK
      <4> QED
        BY <2>1, <2>2, <3>1, <4>1
    <3>2. CASE e = "awsStatus"
      <4>1. live'["awsStatus"] = a
        BY <2>1, <3>2 DEF LiveTypeOK
      <4> QED
        BY <2>1, <2>2, <3>2, <4>1
    <3>3. CASE e \notin {"health", "awsStatus"}
      BY <2>1, <3>3 DEF LiveTypeOK
    <3> QED
      BY <3>1, <3>2, <3>3
  <2> QED
    BY <1>3, <2>3, <2>4 DEF LiveTypeOK, RefreshHealth
<1>4. ASSUME NEW e \in Endpoint, Refresh(e)
      PROVE  LiveTypeOK'
  <2>1. PICK answer \in Answers[e] \cup {DEFAULTS[e]} : live' = [live EXCEPT ![e] = answer]
    BY <1>4 DEF Refresh
  <2> QED
    BY <1>4, <2>1 DEF LiveTypeOK, Refresh
<1>5. CASE PollHealth
  BY <1>3, <1>5 DEF PollHealth
<1>6. ASSUME NEW e \in Endpoint, Poll(e)
      PROVE  LiveTypeOK'
  BY <1>1, <1>4, <1>6 DEF Poll, RefreshFailed
<1>7. ASSUME NEW c \in CallId, CognitoAnswers(c)
      PROVE  LiveTypeOK'
  BY <1>1, <1>2, <1>7 DEF CognitoAnswers, ResetLive, LiveTypeOK
<1>8. CASE Killswitch
  BY <1>8 DEF Killswitch, ToggleMockForced, LiveTypeOK
<1>9. CASE LeaveSession \/ OpenConsole \/ OpenLanding
  BY <1>2, <1>9 DEF LeaveSession, OpenConsole, OpenLanding, ResetLive, LoadLive, LiveTypeOK
<1>10. CASE FillForm \/ AskAgain \/ Clicks \/ UsesView \/ Scrolls \/ ObserverDelivers
            \/ StreamTicks \/ AnimationFrame \/ Visibility \/ Animates
            \/ (\E v \in Routes : Goes(v))
  BY <1>1, <1>10 DEF FillForm, AskAgain, Clicks, UsesView, Scrolls, ObserverDelivers,
     StreamTicks, AnimationFrame, Visibility, Elsewhere, Animates, Goes
<1> QED
  BY <1>5, <1>6, <1>7, <1>8, <1>9, <1>10 DEF Next

LEMMA LiveInvariant == Spec => []LiveTypeOK
<1>1. Init => LiveTypeOK
  BY DEF Init, LiveInit, LiveTypeOK, DEFAULTS
<1>2. LiveTypeOK /\ [Next]_vars => LiveTypeOK'
  BY LiveTypes DEF vars, liveVars, LiveTypeOK
<1> QED
  BY <1>1, <1>2, PTL DEF Spec

\* Storage works or it does not.
LEMMA StorageStays == [AuthNext]_authVars => storage' = storage
<1> SUFFICES ASSUME AuthNext PROVE storage' = storage
  BY DEF authVars
<1>1. CASE Operator \/ ResendConfirmation
  BY <1>1 DEF Operator, SetAuthMode, ResetLogin, BeginSignIn, BeginSignUp, Begin,
     ConfirmSignUp, SubmitTotp, SubmitTotpSetup, SubmitCode, ResendConfirmation
<1>2. ASSUME NEW c \in CallId, Granted(c) \/ NotGranted(c) \/ RestoreFailed(c)
      PROVE  storage' = storage
  BY <1>2 DEF Granted, SignInGranted, TotpAccepted, SetupAccepted, NotGranted,
     SignInChallenged, SignedUp, SignUpConfirmed, Refused, SetupHalfDone, ResendAnswered,
     Restored, RestoreFailed, Grant
<1>3. CASE SignOut \/ LoadAuth \/ LeaveAuth
  BY <1>3 DEF SignOut, LoadAuth, LeaveAuth
<1> QED
  BY <1>1, <1>2, <1>3 DEF AuthNext

\* Polls and the screen leave the killswitch alone, and where the store starts
\* over the page's own is in force.
LEMMA StepOfKillswitch ==
    ASSUME [Next]_vars
    PROVE  UNCHANGED <<forced, atLoad, killswitch>> \/ forced' = atLoad' \/ Killswitch
<1>1. CASE PollHealth \/ \E e \in Endpoint : Poll(e)
  BY <1>1 DEF PollHealth, RefreshHealth, Poll, Refresh, RefreshFailed, liveVars
<1>2. ASSUME NEW c \in CallId, CognitoAnswers(c)
      PROVE  UNCHANGED <<forced, atLoad, killswitch>> \/ forced' = atLoad'
  BY <1>2 DEF CognitoAnswers, ResetLive, liveVars
<1>3. CASE LeaveSession \/ OpenConsole \/ OpenLanding
  BY <1>3 DEF LeaveSession, OpenConsole, OpenLanding, ResetLive, LoadLive
<1>4. CASE FillForm \/ AskAgain \/ Clicks \/ UsesView \/ Scrolls \/ ObserverDelivers
           \/ StreamTicks \/ AnimationFrame \/ Visibility \/ Animates
           \/ (\E v \in Routes : Goes(v))
  BY <1>4 DEF FillForm, AskAgain, Clicks, UsesView, Scrolls, ObserverDelivers,
     StreamTicks, AnimationFrame, Visibility, Elsewhere, Animates, Goes, liveVars
<1>5. CASE UNCHANGED vars
  BY <1>5 DEF vars, liveVars
<1> QED
  BY <1>1, <1>2, <1>3, <1>4, <1>5 DEF Next

\* The chip in the top bar tells which feed is on screen, but for an empty live
\* feed and statistics of zero (adapters.js, chart.js, overview.js, shell.js).
THEOREM ChipTellsTheFeed == Spec => []ChipTellsFeedSource
<1>1. LiveTypeOK => ChipTellsFeedSource
  BY OneMockFeed, FeedAssumption DEF LiveTypeOK, ChipTellsFeedSource, ChipTells, LiveStatusChip, ResolveVerdictPool,
     ResolveVerdicts, OverviewTable, ResolveOverviewStats, ResolveModalities, ResolveHourly,
     HourlyChart, Source, Reached, ResolveTopology, ResolveValidators, ValidatorCount,
     FleetBanner
<1> QED
  BY <1>1, LiveInvariant, PTL

\* The killswitch the API client stores is the one in force, or a sign-in or a
\* sign-out has put the page's own back: where storage works, nothing else arms
\* or disarms it (state.js, api.js).
THEOREM KillswitchStays == Spec => []KillswitchOutlivesSession
<1>1. Init => KillswitchOutlivesSession
  BY DEF Init, LiveInit, KillswitchOutlivesSession, KillswitchIsKept
<1>2. ASSUME KillswitchOutlivesSession, [Next]_vars
      PROVE  KillswitchOutlivesSession'
  <2>1. storage' = storage
    BY <1>2, StepImplements, StorageStays
  <2>2. CASE UNCHANGED <<forced, atLoad, killswitch>>
    BY <1>2, <2>1, <2>2 DEF KillswitchOutlivesSession, KillswitchIsKept
  <2>3. CASE forced' = atLoad'
    BY <2>3 DEF KillswitchOutlivesSession, KillswitchIsKept
  <2>4. CASE Killswitch
    BY <2>1, <2>4 DEF Killswitch, ToggleMockForced, KillswitchOutlivesSession, KillswitchIsKept
  <2>5. UNCHANGED <<forced, atLoad, killswitch>> \/ forced' = atLoad' \/ Killswitch
    BY <1>2, StepOfKillswitch
  <2> QED
    BY <2>2, <2>3, <2>4, <2>5
<1> QED
  BY <1>1, <1>2, PTL DEF Spec

(***************************************************************************)
(* The views and the streamed verdicts.                                    *)
(***************************************************************************)
Kinds == {"all", "auth", "chain", "agent", "security"}
AuditView == [filter : Kinds, search : Terms, expanded : DOMAIN AuditLog \cup {Nothing}]
AwsView == [active : Services, open : SUBSET Services, revealed : SUBSET Services]
Observations == [spy : Services \cup {Nothing}, reveal : SUBSET Services]
Streamed == [verdicts : Seq(Rows), clock : 0 .. Day - 1,
             cursor : 0 .. Len(VerdictPool) - 1]

\* The pager is on a page there is, and the opened row is listed.
OnPage(a) == a \in AgentsView /\ a.page < PageCount(a)
Listed(a) == a \in AuditView /\ (a.expanded # Nothing => a.expanded \in AuditRows(a))

Routing == route \in Routes /\ chosen \in Routes
Viewing == /\ DOMAIN views = DOMAIN InitialViews
           /\ OnPage(views.agents) /\ Listed(views.audit) /\ views.aws \in AwsView
           /\ observed \in Observations
Feeding == stream \in Streamed /\ Len(stream.verdicts) = Len(FirstVerdicts)

VInv == Routing /\ Viewing /\ Feeding

\* There is at least one page, and its number depends on the rows that match.
LEMMA SomePage ==
    ASSUME NEW a \in AgentsView
    PROVE  PageCount(a) \in Nat \ {0}
<1> DEFINE n == Cardinality(Matching(a))
<1>1. n \in Nat
  BY SortsTotally, FS_CardinalityType
<1>2. PageSize \in Nat /\ PageSize > 0
  BY ScreenAssumption
<1>3. (n + PageSize - 1) \div PageSize \in Nat
  <2> HIDE DEF n
  <2> QED
    BY <1>1, <1>2, Z3
<1> QED
  BY <1>3 DEF PageCount

LEMMA PagesDependOnRows ==
    ASSUME NEW a \in AgentsView, NEW p \in Nat
    PROVE  PageCount([a EXCEPT !.page = p]) = PageCount(a)
<1>1. Matching([a EXCEPT !.page = p]) = Matching(a)
  BY DEF Matching, AgentsView
<1> QED
  BY <1>1 DEF PageCount

\* Whatever a handler leaves, rendering clamps it to a page there is.
LEMMA ClampedIsOnPage ==
    ASSUME NEW a \in AgentsView
    PROVE  OnPage(Clamped(a))
<1> DEFINE p == IF a.page < PageCount(a) THEN a.page ELSE PageCount(a) - 1
<1>1. PageCount(a) \in Nat \ {0} /\ a.page \in Nat
  BY SomePage DEF AgentsView
<1>2. p \in Nat /\ p < PageCount(a)
  BY <1>1
<1>3. Clamped(a) = [a EXCEPT !.page = p]
  BY DEF Clamped
<1> HIDE DEF p
<1>4. [a EXCEPT !.page = p] \in AgentsView /\ [a EXCEPT !.page = p].page = p
  BY <1>2 DEF AgentsView
<1> QED
  BY <1>2, <1>3, <1>4, PagesDependOnRows DEF OnPage

\* A page load leaves the views as they are first shown.
LEMMA InitialViewing ==
    /\ OnPage(InitialViews.agents) /\ Listed(InitialViews.audit)
    /\ InitialViews.aws \in AwsView /\ Unobserved \in Observations
<1>1. OnPage(InitialViews.agents)
  <2>1. InitialViews.agents \in AgentsView /\ InitialViews.agents.page = 0
    BY DEF InitialViews, AgentsView, Terms
  <2> QED
    BY <2>1, SomePage DEF OnPage
<1>2. Listed(InitialViews.audit)
  <2>1. InitialViews.audit \in AuditView /\ InitialViews.audit.expanded = Nothing
    BY DEF InitialViews, AuditView, Kinds, Terms
  <2> QED
    BY <2>1 DEF Listed
<1>3. InitialViews.aws \in AwsView
  BY ScreenAssumption DEF InitialViews, AwsView, FirstService
<1>4. Unobserved \in Observations
  BY DEF Unobserved, Observations
<1> QED
  BY <1>1, <1>2, <1>3, <1>4

\* A handler changes the state of its own view only.
LEMMA HandledViews ==
    ASSUME Viewing, NEW v \in DOMAIN InitialViews, NEW s, Handled(v, s),
           v = "agents" => OnPage(s), v = "audit" => Listed(s), v = "aws" => s \in AwsView
    PROVE  Viewing'
<1>1. views' = [views EXCEPT ![v] = s] /\ observed' = observed
  BY DEF Handled, Rerender
<1>2. DOMAIN views = {"attacks", "registry", "agents", "audit", "settings", "aws"}
  BY DEF Viewing, InitialViews
<1>3. /\ DOMAIN views' = DOMAIN views
      /\ views'.agents = IF v = "agents" THEN s ELSE views.agents
      /\ views'.audit = IF v = "audit" THEN s ELSE views.audit
      /\ views'.aws = IF v = "aws" THEN s ELSE views.aws
  BY <1>1, <1>2
<1> QED
  BY <1>1, <1>3 DEF Viewing, OnPage, Listed

LEMMA AgentsStep == ASSUME Viewing, AgentsHandler PROVE Viewing'
<1> DEFINE a == views.agents
<1>1. OnPage(a) /\ a \in AgentsView
  BY DEF Viewing, OnPage
<1>2. PICK b \in AgentsView : Handled("agents", Clamped(b))
  <2>1. \A q \in Terms : FirstPage([a EXCEPT !.q = q]) \in AgentsView
    BY <1>1 DEF FirstPage, AgentsView
  <2>2. \A s \in {"all", "healthy", "warning"} :
          FirstPage([a EXCEPT !.statusFilter = s]) \in AgentsView
    BY <1>1 DEF FirstPage, AgentsView
  <2>3. \A key \in {"id", "blocked"} : FirstPage(SortedBy(a, key)) \in AgentsView
    BY <1>1 DEF FirstPage, SortedBy, AgentsView
  <2>4. a.page # 0 => [a EXCEPT !.page = @ - 1] \in AgentsView
    BY <1>1 DEF AgentsView
  <2>5. [a EXCEPT !.page = @ + 1] \in AgentsView
    BY <1>1 DEF AgentsView
  <2> HIDE DEF a
  <2> QED
    BY <2>1, <2>2, <2>3, <2>4, <2>5 DEF AgentsHandler, a
<1>3. OnPage(Clamped(b))
  BY ClampedIsOnPage
<1>4. "agents" \in DOMAIN InitialViews
  BY DEF InitialViews
<1> QED
  BY <1>2, <1>3, <1>4, HandledViews

LEMMA AuditStep == ASSUME Viewing, AuditHandler PROVE Viewing'
<1> DEFINE a == views.audit
<1>1. Listed(a) /\ a \in AuditView
  BY DEF Viewing, Listed
<1>2. PICK b : Handled("audit", b) /\ Listed(b)
  <2>1. ASSUME NEW f \in Kinds
        PROVE  Listed(FilterAudit(a, f))
    <3>1. FilterAudit(a, f) \in AuditView /\ FilterAudit(a, f).expanded = Nothing
      BY <1>1 DEF FilterAudit, AuditView
    <3> QED
      BY <3>1 DEF Listed
  <2>2. ASSUME NEW q \in Terms
        PROVE  Listed(SearchAudit(a, q))
    <3>1. SearchAudit(a, q) \in AuditView /\ SearchAudit(a, q).expanded = Nothing
      BY <1>1 DEF SearchAudit, AuditView
    <3> QED
      BY <3>1 DEF Listed
  <2>3. ASSUME NEW i \in AuditRows(a)
        PROVE  Listed(ExpandRow(a, i))
    <3>1. i \in DOMAIN AuditLog
      BY DEF AuditRows
    <3>2. ExpandRow(a, i) \in AuditView
      BY <1>1, <3>1 DEF ExpandRow, AuditView
    <3>3. /\ ExpandRow(a, i).expanded \in {i, Nothing}
          /\ ExpandRow(a, i).filter = a.filter /\ ExpandRow(a, i).search = a.search
      BY <1>1 DEF ExpandRow, AuditView
    <3>4. AuditRows(ExpandRow(a, i)) = AuditRows(a)
      BY <3>3 DEF AuditRows
    <3> QED
      BY <3>2, <3>3, <3>4 DEF Listed
  <2> HIDE DEF a
  <2> QED
    BY <2>1, <2>2, <2>3 DEF AuditHandler, Kinds, a
<1>3. "audit" \in DOMAIN InitialViews
  BY DEF InitialViews
<1> QED
  BY <1>2, <1>3, HandledViews

LEMMA AwsStep == ASSUME Viewing, AwsHandler PROVE Viewing'
<1>1. views.aws \in AwsView
  BY DEF Viewing
<1>2. PICK w \in AwsView : Handled("aws", w)
  BY <1>1 DEF AwsHandler, AwsView
<1>3. "aws" \in DOMAIN InitialViews
  BY DEF InitialViews
<1> QED
  BY <1>2, <1>3, HandledViews

\* What the observers deliver are cards of the view.
LEMMA ObserverStep == ASSUME Viewing, SpyDelivered \/ RevealDelivered PROVE Viewing'
<1>1. DOMAIN views = {"attacks", "registry", "agents", "audit", "settings", "aws"}
  BY DEF Viewing, InitialViews
<1>2. observed \in Observations /\ views.aws \in AwsView
  BY DEF Viewing
<1>3. observed' \in Observations
  BY <1>2 DEF SpyDelivered, RevealDelivered, Observations
<1>4. CASE views' = views
  BY <1>3, <1>4 DEF Viewing, OnPage, Listed
<1>5. CASE \E w \in AwsView : views' = [views EXCEPT !.aws = w]
  <2>1. /\ DOMAIN views' = DOMAIN views /\ views'.aws \in AwsView
        /\ views'.agents = views.agents /\ views'.audit = views.audit
    BY <1>1, <1>5
  <2> QED
    BY <1>3, <2>1 DEF Viewing, OnPage, Listed
<1>6. CASE SpyDelivered
  <2>1. [views.aws EXCEPT !.active = observed.spy] \in AwsView
    BY <1>2, <1>6 DEF SpyDelivered, Observations, AwsView
  <2> QED
    BY <1>4, <1>5, <1>6, <2>1 DEF SpyDelivered
<1>7. CASE RevealDelivered
  <2>1. [views.aws EXCEPT !.revealed = @ \cup observed.reveal] \in AwsView
    BY <1>2 DEF Observations, AwsView
  <2> QED
    BY <1>4, <1>5, <1>7, <2>1 DEF RevealDelivered
<1> QED
  BY <1>6, <1>7

\* Every step keeps the views in shape.
LEMMA ViewStep == ASSUME Viewing, [Next]_vars PROVE Viewing'
<1>1. CASE UNCHANGED <<views, observed>>
  BY <1>1 DEF Viewing, OnPage, Listed
<1>2. CASE UNCHANGED vars
  BY <1>1, <1>2 DEF vars, screenVars
<1>3. CASE LoadScreen
  <2>1. views' = InitialViews /\ observed' = Unobserved
    BY <1>3 DEF LoadScreen
  <2> QED
    BY <2>1, InitialViewing DEF Viewing, OnPage, Listed
<1>4. CASE UsesView
  <2>1. CASE \E v \in {"attacks", "registry", "settings"} : \E s : Handled(v, s)
    <3>1. \A v \in {"attacks", "registry", "settings"} : v \in DOMAIN InitialViews
      BY DEF InitialViews
    <3> QED
      BY <2>1, <3>1, HandledViews
  <2>2. AttacksHandler \/ RegistryHandler(GraphNodes, GraphNeighbors) \/ SettingsHandler
          => \E v \in {"attacks", "registry", "settings"} : \E s : Handled(v, s)
    BY DEF AttacksHandler, RegistryHandler, SettingsHandler
  <2> QED
    BY <1>4, <2>1, <2>2, AgentsStep, AuditStep, AwsStep DEF UsesView
<1>5. CASE ObserverDelivers
  BY <1>5, ObserverStep DEF ObserverDelivers
<1>6. CASE Scrolls
  <2>1. views' = views /\ observed \in Observations
    BY <1>6 DEF Scrolls, Intersect, Viewing
  <2>2. observed' \in Observations
    BY <1>6, <2>1 DEF Scrolls, Intersect, Observations
  <2> QED
    BY <2>1, <2>2 DEF Viewing, OnPage, Listed
<1>7. ASSUME NEW c \in CallId, CognitoAnswers(c)
      PROVE  UNCHANGED <<views, observed>>
  BY <1>7 DEF CognitoAnswers, ScreenSignedIn, Notice, localVars, screenVars
<1>8. ASSUME NEW v \in Routes, Goes(v)
      PROVE  UNCHANGED <<views, observed>>
  BY <1>8 DEF Goes, Navigate, localVars
<1>9. ASSUME NEW e \in Endpoint, Poll(e)
      PROVE  UNCHANGED <<views, observed>>
  BY <1>9 DEF Poll, Notice, localVars
<1>10. CASE OpenConsole \/ OpenLanding
  BY <1>3, <1>10 DEF OpenConsole, OpenLanding
<1>11. CASE FillForm \/ AskAgain \/ LeaveSession \/ PollHealth \/ Killswitch
  BY <1>1, <1>11 DEF FillForm, AskAgain, LeaveSession, PollHealth, Killswitch, Notice,
     ScreenSignedOut, localVars, screenVars
<1>12. CASE Clicks
  BY <1>1, <1>12 DEF Clicks, OpenDrawer, CloseDrawer, ToggleUserMenu, CloseUserMenu, Notice,
     localVars
<1>13. CASE StreamTicks \/ AnimationFrame \/ Visibility \/ Animates
  BY <1>1, <1>13 DEF StreamTicks, AnimationFrame, Visibility, Animates, Tick, Frame, Hide,
     Show, localVars, screenVars
<1> QED
  BY <1>1, <1>2, <1>4, <1>5, <1>6, <1>7, <1>8, <1>9, <1>10, <1>11, <1>12, <1>13 DEF Next

\* Wherever a step goes, it is a view (goto in state.js).
LEMMA RouteStep == ASSUME Routing, [Next]_vars PROVE Routing'
<1>1. CASE UNCHANGED <<route, chosen>>
  BY <1>1 DEF Routing
<1>2. CASE \E v \in Routes : route' = v /\ chosen' \in {v, chosen}
  BY <1>2 DEF Routing
<1>3. CASE UNCHANGED vars
  BY <1>1, <1>3 DEF vars, screenVars
<1>4. CASE Landed
  BY <1>2, <1>4 DEF Landed, Routes
<1>5. CASE UsesView
  <2>1. PICK v \in Routes : \E s : Handled(v, s)
    BY <1>5 DEF UsesView, AttacksHandler, RegistryHandler, AgentsHandler, AuditHandler,
       SettingsHandler, AwsHandler, Routes
  <2> QED
    BY <1>2, <2>1 DEF Handled, Rerender, Goto
<1>6. CASE ObserverDelivers
  BY <1>1, <1>2, <1>6 DEF ObserverDelivers, SpyDelivered, RevealDelivered, Pull, Goto, Routes
<1>7. ASSUME NEW c \in CallId, CognitoAnswers(c)
      PROVE  Routing'
  BY <1>1, <1>4, <1>7 DEF CognitoAnswers, ScreenSignedIn, Notice, screenVars
<1>8. ASSUME NEW v \in Routes, Goes(v)
      PROVE  Routing'
  BY <1>2, <1>8 DEF Goes, Navigate, Goto
<1>9. ASSUME NEW e \in Endpoint, Poll(e)
      PROVE  Routing'
  BY <1>1, <1>9 DEF Poll, Notice
<1>10. CASE LeaveSession \/ OpenConsole \/ OpenLanding
  BY <1>4, <1>10 DEF LeaveSession, ScreenSignedOut, OpenConsole, OpenLanding, LoadScreen
<1>11. CASE FillForm \/ AskAgain \/ PollHealth \/ Killswitch \/ Clicks \/ Scrolls
  BY <1>1, <1>11 DEF FillForm, AskAgain, PollHealth, Killswitch, Clicks, Notice, OpenDrawer,
     CloseDrawer, ToggleUserMenu, CloseUserMenu, Scrolls, Intersect, screenVars
<1>12. CASE StreamTicks \/ AnimationFrame \/ Visibility \/ Animates
  BY <1>1, <1>12 DEF StreamTicks, AnimationFrame, Visibility, Animates, Tick, Frame, Hide,
     Show, screenVars
<1> QED
  BY <1>3, <1>5, <1>6, <1>7, <1>8, <1>9, <1>10, <1>11, <1>12 DEF Next

\* The first verdicts and the pool are feeds, and the first verdicts are some.
LEMMA MockFeeds ==
    /\ FirstVerdicts \in Seq(Rows) /\ VerdictPool \in Seq(Rows)
    /\ Len(FirstVerdicts) \in Nat \ {0} /\ Len(VerdictPool) \in Nat \ {0}
    /\ Day \in Nat \ {0}
<1>1. FirstVerdicts \in Seq(Rows) /\ VerdictPool \in Seq(Rows)
  BY FeedAssumption
<1>2. FirstVerdicts # <<>> /\ VerdictPool # <<>>
  BY FeedAssumption, ScreenAssumption
<1>3. \A s \in Seq(Rows) : s # <<>> => Len(s) \in Nat \ {0}
  <2> SUFFICES ASSUME NEW S, NEW s \in Seq(S), s # <<>> PROVE Len(s) \in Nat \ {0}
    OBVIOUS
  <2> QED
    BY EmptySeq
<1> QED
  BY <1>1, <1>2, <1>3, ScreenAssumption

\* A verdict pushes the last one out: the table keeps its length (dashboard.js).
LEMMA PushedSequence ==
    ASSUME NEW S, NEW x \in S, NEW s \in Seq(S), Len(s) # 0
    PROVE  /\ <<x>> \o SubSeq(s, 1, Len(s) - 1) \in Seq(S)
           /\ Len(<<x>> \o SubSeq(s, 1, Len(s) - 1)) = Len(s)
<1>1. Len(s) \in Nat
  OBVIOUS
<1> DEFINE kept == SubSeq(s, 1, Len(s) - 1)
<1>2. kept \in Seq(S) /\ Len(kept) = Len(s) - 1
  <2>1. \A i \in 1 .. Len(s) - 1 : s[i] \in S
    BY <1>1
  <2>2. /\ kept \in Seq(S)
        /\ Len(kept) = IF 1 <= Len(s) - 1 THEN Len(s) - 1 - 1 + 1 ELSE 0
    BY <1>1, <2>1, SubSeqProperties
  <2>3. \A n \in Nat \ {0} : (IF 1 <= n - 1 THEN n - 1 - 1 + 1 ELSE 0) = n - 1
    OBVIOUS
  <2> HIDE DEF kept
  <2> QED
    BY <1>1, <2>2, <2>3, Zenon
<1>3. <<x>> \in Seq(S) /\ Len(<<x>>) = 1
  OBVIOUS
<1> QED
  BY <1>1, <1>2, <1>3, ConcatProperties

LEMMA TickStep == ASSUME Feeding, Tick PROVE Feeding'
<1>1. PICK step \in Steps :
        LET now == (stream.clock + step) % Day
            src == VerdictPool[(stream.cursor % Len(VerdictPool)) + 1]
        IN  stream' = [verdicts |-> <<[src EXCEPT !.time = now]>> \o
                          SubSeq(stream.verdicts, 1, Len(FirstVerdicts) - 1),
                       clock |-> now,
                       cursor |-> (stream.cursor + 1) % Len(VerdictPool)]
  BY DEF Tick
<1> DEFINE now == (stream.clock + step) % Day
           src == VerdictPool[(stream.cursor % Len(VerdictPool)) + 1]
           row == [src EXCEPT !.time = now]
           next == (stream.cursor + 1) % Len(VerdictPool)
<1>2. /\ stream.clock \in Nat /\ stream.cursor \in 0 .. Len(VerdictPool) - 1
      /\ stream.verdicts \in Seq(Rows) /\ Len(stream.verdicts) = Len(FirstVerdicts)
      /\ step \in Nat
  BY ScreenAssumption DEF Feeding, Streamed
<1>3. now \in 0 .. Day - 1
  <2>1. \A n \in Nat, d \in Nat \ {0} : n % d \in 0 .. d - 1
    OBVIOUS
  <2>2. stream.clock + step \in Nat
    BY <1>2
  <2> QED
    BY <2>1, <2>2, MockFeeds
<1>4. next \in 0 .. Len(VerdictPool) - 1
  <2>1. \A n \in Nat, d \in Nat \ {0} : n % d \in 0 .. d - 1
    OBVIOUS
  <2>2. stream.cursor + 1 \in Nat
    BY <1>2, MockFeeds
  <2> QED
    BY <2>1, <2>2, MockFeeds
<1>5. src \in Rows
  <2>1. stream.cursor % Len(VerdictPool) = stream.cursor
    <3>1. \A d \in Nat \ {0} : \A n \in 0 .. d - 1 : n % d = n
      OBVIOUS
    <3> QED
      BY <1>2, <3>1, MockFeeds
  <2>2. stream.cursor + 1 \in DOMAIN VerdictPool
    BY <1>2, MockFeeds, Elements
  <2> QED
    BY <2>1, <2>2, MockFeeds, Elements
<1> HIDE DEF src
<1>6. row \in Rows
  BY <1>3, <1>5 DEF Rows
<1> HIDE DEF now, row, next
<1>7. /\ <<row>> \o SubSeq(stream.verdicts, 1, Len(stream.verdicts) - 1) \in Seq(Rows)
      /\ Len(<<row>> \o SubSeq(stream.verdicts, 1, Len(stream.verdicts) - 1))
           = Len(stream.verdicts)
  BY <1>2, <1>6, MockFeeds, PushedSequence
<1>8. stream' = [verdicts |-> <<row>> \o SubSeq(stream.verdicts, 1, Len(FirstVerdicts) - 1),
                 clock |-> now, cursor |-> next]
  BY <1>1 DEF now, src, row, next
<1> QED
  BY <1>2, <1>3, <1>4, <1>7, <1>8 DEF Feeding, Streamed

\* Every step keeps the streamed verdicts what they are.
LEMMA FeedStep == ASSUME Feeding, [Next]_vars PROVE Feeding'
<1>1. CASE UNCHANGED stream
  BY <1>1 DEF Feeding
<1>2. CASE stream' = InitialStream
  <2>1. 0 \in 0 .. Day - 1 /\ 0 \in 0 .. Len(VerdictPool) - 1
    BY MockFeeds
  <2> QED
    BY <1>2, <2>1, MockFeeds DEF Feeding, Streamed, InitialStream
<1>3. CASE LeaveSession
  <2>1. stream' = [stream EXCEPT !.verdicts = FirstVerdicts]
    BY <1>3 DEF LeaveSession, ScreenSignedOut
  <2> QED
    BY <2>1, MockFeeds DEF Feeding, Streamed
<1>4. CASE UNCHANGED vars
  BY <1>1, <1>4 DEF vars, screenVars
<1>5. CASE UsesView
  BY <1>1, <1>5 DEF UsesView, AttacksHandler, RegistryHandler, AgentsHandler, AuditHandler,
     SettingsHandler, AwsHandler, Handled, Rerender, streamVars
<1>6. CASE ObserverDelivers
  BY <1>1, <1>6 DEF ObserverDelivers, SpyDelivered, RevealDelivered, Pull, streamVars
<1>7. ASSUME NEW c \in CallId, CognitoAnswers(c)
      PROVE  UNCHANGED stream
  BY <1>7 DEF CognitoAnswers, ScreenSignedIn, Notice, screenVars, streamVars
<1>8. ASSUME NEW v \in Routes, Goes(v)
      PROVE  UNCHANGED stream
  BY <1>8 DEF Goes, Navigate, streamVars
<1>9. ASSUME NEW e \in Endpoint, Poll(e)
      PROVE  UNCHANGED stream
  BY <1>9 DEF Poll, Notice, streamVars
<1>10. CASE OpenConsole \/ OpenLanding
  BY <1>2, <1>10 DEF OpenConsole, OpenLanding, LoadScreen
<1>11. CASE FillForm \/ AskAgain \/ PollHealth \/ Killswitch \/ Clicks \/ Scrolls
  BY <1>1, <1>11 DEF FillForm, AskAgain, PollHealth, Killswitch, Clicks, Notice, OpenDrawer,
     CloseDrawer, ToggleUserMenu, CloseUserMenu, Scrolls, Intersect, screenVars, streamVars
<1>12. CASE StreamTicks
  BY <1>12, TickStep DEF StreamTicks
<1>13. CASE AnimationFrame \/ Visibility \/ Animates
  BY <1>1, <1>13 DEF AnimationFrame, Visibility, Animates, Frame, Hide, Show, screenVars
<1> QED
  BY <1>1, <1>3, <1>4, <1>5, <1>6, <1>7, <1>8, <1>9, <1>10, <1>11, <1>12, <1>13 DEF Next

LEMMA ViewInvariant == Spec => []VInv
<1>1. Init => VInv
  <2> SUFFICES ASSUME Init PROVE VInv
    OBVIOUS
  <2>1. ScreenInit
    BY DEF Init
  <2>2. Routing
    BY <2>1 DEF ScreenInit, Routing, Routes
  <2>3. Feeding
    <3>1. 0 \in 0 .. Day - 1 /\ 0 \in 0 .. Len(VerdictPool) - 1
      BY MockFeeds
    <3> QED
      BY <2>1, <3>1, MockFeeds DEF ScreenInit, Feeding, Streamed, InitialStream
  <2>4. Viewing
    BY <2>1, InitialViewing DEF ScreenInit, Viewing
  <2> QED
    BY <2>2, <2>3, <2>4 DEF VInv
<1>2. VInv /\ [Next]_vars => VInv'
  BY RouteStep, ViewStep, FeedStep DEF VInv
<1> QED
  BY <1>1, <1>2, PTL DEF Spec

\* What the views show of a feed is a feed.
LEMMA FeedsOnScreen ==
    ASSUME LiveTypeOK, Feeding
    PROVE  /\ ResolveVerdictPool \in Seq(Rows)
           /\ OverviewTable(stream.verdicts) \in Seq(Rows)
<1>1. VERDICT_POOL \in Seq(Rows) /\ INITIAL_VERDICTS \in Seq(Rows)
  BY OneMockFeed, FeedAssumption
<1>2. live.attacks \in Seq(Rows)
  <2>1. "attacks" \in Endpoint /\ Answers["attacks"] = Feeds /\ DEFAULTS["attacks"] = <<>>
    BY DEF Endpoint, Answers, DEFAULTS
  <2>2. live["attacks"] \in Feeds \cup {<<>>}
    BY <2>1 DEF LiveTypeOK
  <2>3. <<>> \in Seq(Rows)
    OBVIOUS
  <2> QED
    BY <2>2, <2>3, FeedAssumption
<1>3. ASSUME NEW S, NEW s \in Seq(S), NEW n \in Nat
      PROVE  Head1(s, n) \in Seq(S)
  <2> DEFINE m == IF Len(s) < n THEN Len(s) ELSE n
  <2>1. m \in Nat /\ m <= Len(s) /\ Len(s) \in Nat
    OBVIOUS
  <2>2. \A i \in 1 .. m : s[i] \in S
    <3> HIDE DEF m
    <3> QED
      BY <2>1
  <2>3. SubSeq(s, 1, m) \in Seq(S)
    <3> HIDE DEF m
    <3> QED
      BY <2>1, <2>2, SubSeqProperties
  <2> QED
    BY <2>3 DEF Head1
<1>4. stream.verdicts \in Seq(Rows)
  BY DEF Feeding, Streamed
<1> QED
  BY <1>1, <1>2, <1>3, <1>4, LiveAssumption DEF ResolveVerdictPool, ResolveVerdicts, OverviewTable

\* Neither table of verdicts ever shows a time finer than a window, or a
\* pseudonym for a row whose window and modality fewer than K_ANON rows of the
\* feed share: not after filter and search either (privacy.js, attacks.js,
\* overview.js).
THEOREM PseudonymsStayHidden == Spec => []PseudonymsHideInCrowd
<1>1. LiveTypeOK /\ VInv => PseudonymsHideInCrowd
  <2> SUFFICES ASSUME LiveTypeOK, VInv PROVE PseudonymsHideInCrowd
    OBVIOUS
  <2>1. \A rows \in Seq(Rows) : \A shown \in SUBSET DOMAIN PrivateTable(rows, "today") :
          HidesAmong(Restrict(PrivateTable(rows, "today"), shown), PrivateTable(rows, "today"))
    <3> DEFINE Time == {NoTime} \cup Nat
    <3>1. Rows = [time : Time, agent : STRING, mod : STRING, verdict : STRING, tag : STRING]
      BY DEF Rows
    <3>2. \A t \in Time : t \in Nat \/ t = NoTime
      OBVIOUS
    <3> HIDE DEF Time
    <3> QED
      BY <3>1, <3>2, PseudonymsAlwaysHide
  <2>2. ResolveVerdictPool \in Seq(Rows) /\ OverviewTable(stream.verdicts) \in Seq(Rows)
    BY FeedsOnScreen DEF VInv
  <2>3. HidesAmong(AttacksShown, AttacksPrivate)
    BY <2>1, <2>2 DEF AttacksShown, AttacksPrivate
  <2>4. HidesAmong(OverviewPrivate, OverviewPrivate)
    <3>1. HidesAmong(Restrict(OverviewPrivate, DOMAIN OverviewPrivate), OverviewPrivate)
      BY <2>1, <2>2 DEF OverviewPrivate
    <3>2. Restrict(OverviewPrivate, DOMAIN OverviewPrivate) = OverviewPrivate
      BY DEF Restrict, OverviewPrivate, PrivateTable
    <3> QED
      BY <3>1, <3>2
  <2> QED
    BY <2>3, <2>4 DEF PseudonymsHideInCrowd
<1> QED
  BY <1>1, LiveInvariant, ViewInvariant, PTL

\* The topology on screen is one that layoutNodes can be given.
LEMMA GraphOnScreen ==
    ASSUME LiveTypeOK, ResolveTopology # Unset
    PROVE  IsTopology(ResolveTopology)
<1>1. CASE forced
  BY <1>1, MeshAssumption DEF ResolveTopology
<1>2. CASE ~forced
  <2>1. "topology" \in Endpoint /\ Answers["topology"] = Topologies
        /\ DEFAULTS["topology"] = Unset
    BY DEF Endpoint, Answers, DEFAULTS
  <2>2. live["topology"] \in Topologies
    BY <1>2, <2>1 DEF LiveTypeOK, ResolveTopology, Reached
  <2>3. ResolveTopology = [live.topology EXCEPT !.edges =
            Restrict(@, {i \in DOMAIN @ : NoId \notin {@[i].from, @[i].to}})]
    BY <1>2 DEF ResolveTopology
  <2> DEFINE t == live.topology
             whole == {i \in DOMAIN t.edges : NoId \notin {t.edges[i].from, t.edges[i].to}}
  <2>4. /\ t = [self |-> t.self, nodes |-> t.nodes, edges |-> t.edges]
        /\ IsTopology(t)
    BY <2>2, MeshAssumption
  <2>5. ResolveTopology = [t EXCEPT !.edges = Restrict(@, whole)]
    BY <2>3
  <2>6. whole \in SUBSET DOMAIN t.edges
    OBVIOUS
  <2> HIDE DEF t, whole
  <2> QED
    BY <2>4, <2>5, <2>6, WholeEdgesStay
<1> QED
  BY <1>1, <1>2

\* The registry draws every node and every pair once, at most one edge is
\* animated, an opened audit row is one of those listed, and a page of the
\* fleet is empty only when no agent matches (registry.js, audit.js, agents.js).
THEOREM ViewsShowData == Spec => []ViewsShowTheirData
<1>1. LiveTypeOK /\ VInv => ViewsShowTheirData
  <2> SUFFICES ASSUME LiveTypeOK, VInv PROVE ViewsShowTheirData
    OBVIOUS
  <2>1. ViewsShowTheirRows
    BY PagesAreFull DEF VInv, Viewing, OnPage, Listed, ViewsShowTheirRows
  <2>2. ResolveTopology # Unset =>
          /\ NodesApart(ResolveTopology) /\ EachPairOnce(ResolveTopology)
          /\ AnimatedEdge(ResolveTopology)
    BY GraphOnScreen, NodesAreApart, PairsAreDrawnOnce, OneEdgeAnimates
  <2> QED
    BY <2>1, <2>2 DEF ViewsShowTheirData
<1> QED
  BY <1>1, LiveInvariant, ViewInvariant, PTL

(***************************************************************************)
(* The landing page.                                                       *)
(***************************************************************************)
Bits == [hidden : BOOLEAN, annot : BOOLEAN, slide : 0 .. Slides - 1, sight : BOOLEAN,
         flash : {"lit", "waiting"}]

LInv == LandingTypeOK /\ still \in BOOLEAN /\ bits \in Bits

\* The act of a scroll position is one of the section's (ActAt: Math.min).
LEMMA ActOfSection ==
    ASSUME NEW p \in 0 .. Scale, NEW n \in Nat \ {0}
    PROVE  ActAt(p, n) \in 0 .. n - 1
<1>1. Scale \in Nat /\ Scale > 0 /\ p \in Nat
  BY LandingAssumption
<1>2. p * n \in Nat
  BY <1>1, Z3
<1> DEFINE m == p * n
<1>3. m \div Scale \in Nat
  <2>1. m \in Nat
    BY <1>2
  <2> HIDE DEF m
  <2> QED
    BY <1>1, <2>1, Z3
<1> DEFINE q == m \div Scale
<1>4. ActAt(p, n) = IF q < n THEN q ELSE n - 1
  BY DEF ActAt
<1>5. q \in Nat
  BY <1>3
<1> HIDE DEF q
<1> QED
  BY <1>4, <1>5

\* The classes every act gives.
LEMMA ActMarks ==
    /\ Hit \in [Node -> SUBSET {"hit", "immune", "blocked"}]
    /\ AllImmune \in [Node -> SUBSET {"hit", "immune", "blocked"}]
    /\ [AllImmune EXCEPT ![user2] = {"blocked"}] \in [Node -> SUBSET {"hit", "immune", "blocked"}]
    /\ Dark \in [Wires -> SUBSET {"active", "immune"}]
BY DEF Hit, Bare, AllImmune, Dark

\* Only the landing page's own steps and page loads touch its animations.
LEMMA OthersLeaveLanding ==
    ASSUME [Next]_vars, ~Animates, ~OpenConsole, ~OpenLanding
    PROVE  UNCHANGED landingVars
<1>1. CASE UNCHANGED vars
  BY <1>1 DEF vars
<1>2. ASSUME NEW c \in CallId, CognitoAnswers(c)
      PROVE  UNCHANGED landingVars
  BY <1>2 DEF CognitoAnswers
<1>3. ASSUME NEW e \in Endpoint, Poll(e)
      PROVE  UNCHANGED landingVars
  BY <1>3 DEF Poll
<1>4. ASSUME NEW v \in Routes, Goes(v)
      PROVE  UNCHANGED landingVars
  BY <1>4 DEF Goes, Elsewhere
<1>5. CASE FillForm \/ AskAgain \/ LeaveSession \/ PollHealth \/ Killswitch
  BY <1>5 DEF FillForm, AskAgain, LeaveSession, PollHealth, Killswitch
<1>6. CASE Clicks \/ UsesView \/ Scrolls \/ ObserverDelivers \/ StreamTicks
           \/ AnimationFrame \/ Visibility
  BY <1>6 DEF Clicks, UsesView, Scrolls, ObserverDelivers, StreamTicks, AnimationFrame,
     Visibility, Elsewhere
<1> QED
  BY <1>1, <1>2, <1>3, <1>4, <1>5, <1>6 DEF Next

LEMMA LandingStep == ASSUME LInv, [Next]_vars PROVE LInv'
<1>1. CASE UNCHANGED landingVars
  BY <1>1 DEF LInv, LandingTypeOK, landingVars
<1>2. CASE LoadLanding
  <2>1. /\ act' = -1 /\ story' = -1 /\ timers' = {} /\ marks' = Hit /\ wires' = Dark
        /\ rail' \in {Stages - 1, -1} /\ still' = still
    BY <1>2 DEF LoadLanding, LandingLoaded
  <2>2. Stages - 1 \in -1 .. Stages - 1 /\ -1 \in -1 .. Stages - 1
        /\ -1 \in -1 .. StoryActs - 1 /\ 0 \in 0 .. Slides - 1
    BY LandingAssumption
  <2>3. bits' \in Bits
    BY <1>2, <2>2 DEF LInv, LoadLanding, LandingLoaded, InitialBits, Bits
  <2>4. -1 \in -1 .. Acts - 1
    BY DEF Acts
  <2>5. bits'.slide \in 0 .. Slides - 1
    BY <2>3 DEF Bits
  <2> QED
    BY <2>1, <2>2, <2>3, <2>4, <2>5, ActMarks DEF LInv, LandingTypeOK
<1>3. ASSUME NEW p \in 0 .. Scale, ScrollNetwork(p)
      PROVE  LInv'
  <2>1. act' \in -1 .. Acts - 1
    <3>1. act' \in 0 .. Acts - 1 /\ Acts \in Nat \ {0}
      BY <1>3, ActOfSection DEF ScrollNetwork, Acts
    <3> QED
      BY <3>1
  <2>2. UNCHANGED <<still, story, rail, bits>>
    BY <1>3 DEF ScrollNetwork
  <2>3. /\ timers' \subseteq Schedule /\ wires' = Dark
        /\ marks' \in [Node -> SUBSET {"hit", "immune", "blocked"}]
    BY <1>3, ActMarks DEF ScrollNetwork, ApplyAct, Attack, Gossip, Twin, ClearAll
  <2> QED
    BY <2>1, <2>2, <2>3, ActMarks DEF LInv, LandingTypeOK
<1>4. ASSUME NEW p \in 0 .. Scale, ScrollStory(p)
      PROVE  LInv'
  <2>1. story' \in -1 .. StoryActs - 1
    <3>1. story' \in 0 .. StoryActs - 1 /\ StoryActs \in Nat \ {0}
      BY <1>4, ActOfSection, LandingAssumption DEF ScrollStory
    <3> QED
      BY <3>1
  <2> QED
    BY <1>4, <2>1 DEF ScrollStory, LInv, LandingTypeOK
<1>5. ASSUME NEW p \in 0 .. Scale, ScrollRail(p)
      PROVE  LInv'
  <2>1. rail' \in -1 .. Stages - 1
    <3>1. rail' \in 0 .. Stages - 1 /\ Stages \in Nat \ {0}
      BY <1>5, ActOfSection, LandingAssumption DEF ScrollRail
    <3> QED
      BY <3>1
  <2> QED
    BY <1>5, <2>1 DEF ScrollRail, LInv, LandingTypeOK
<1>6. ASSUME NEW t \in timers, TimerFires(t)
      PROVE  LInv'
  <2>1. timers' \subseteq Schedule
    BY <1>6 DEF TimerFires, LInv, LandingTypeOK
  <2>2. wires' \in [Wires -> SUBSET {"active", "immune"}]
    <3>1. \A w : \A c \in {"active", "immune"} :
            [wires EXCEPT ![w] = @ \cup {c}] \in [Wires -> SUBSET {"active", "immune"}]
      BY DEF LInv, LandingTypeOK
    <3> QED
      BY <1>6, <3>1 DEF TimerFires
  <2>3. marks' \in [Node -> SUBSET {"hit", "immune", "blocked"}]
    <3>1. \A n : [marks EXCEPT ![n] = IF "hit" \in @ THEN @ ELSE @ \cup {"immune"}]
                   \in [Node -> SUBSET {"hit", "immune", "blocked"}]
      BY DEF LInv, LandingTypeOK
    <3> QED
      BY <1>6, <3>1 DEF TimerFires, LInv, LandingTypeOK
  <2> QED
    BY <1>6, <2>1, <2>2, <2>3 DEF TimerFires, LInv, LandingTypeOK
<1>7. CASE RevealSpecimen \/ Annotate \/ ScrollInOrOut \/ NextSlide \/ Flash
  <2>1. bits \in Bits
    BY DEF LInv
  <2>2. (bits.slide + 1) % Slides \in 0 .. Slides - 1
    <3>1. \A n \in Nat, d \in Nat \ {0} : (n + 1) % d \in 0 .. d - 1
      OBVIOUS
    <3>2. bits.slide \in Nat
      BY <2>1, LandingAssumption DEF Bits
    <3> QED
      BY <3>1, <3>2, LandingAssumption
  <2>3. bits' \in Bits
    BY <1>7, <2>1, <2>2 DEF Bits, RevealSpecimen, Annotate, ScrollInOrOut, NextSlide, Flash,
       Animate
  <2>4. bits'.slide \in 0 .. Slides - 1
    BY <2>3 DEF Bits
  <2>5. UNCHANGED <<still, act, marks, wires, site, timers, story, rail>>
    BY <1>7 DEF RevealSpecimen, Annotate, ScrollInOrOut, NextSlide, Flash, Animate
  <2> QED
    BY <2>3, <2>4, <2>5 DEF LInv, LandingTypeOK
<1>8. CASE Animates
  BY <1>3, <1>4, <1>5, <1>6, <1>7, <1>8 DEF Animates
<1>9. CASE [Next]_vars /\ ~Animates /\ ~OpenConsole /\ ~OpenLanding
  BY <1>1, <1>9, OthersLeaveLanding
<1> QED
  BY <1>2, <1>8, <1>9 DEF OpenConsole, OpenLanding

LEMMA LandingInvariant == Spec => []LInv
<1>1. Init => LInv
  <2> SUFFICES ASSUME Init PROVE LInv
    OBVIOUS
  <2>1. /\ act = -1 /\ story = -1 /\ timers = {} /\ marks = Hit /\ wires = Dark
        /\ rail \in {Stages - 1, -1} /\ still \in BOOLEAN
    BY DEF Init, LandingInit
  <2>2. Stages - 1 \in -1 .. Stages - 1 /\ -1 \in -1 .. Stages - 1
        /\ -1 \in -1 .. StoryActs - 1 /\ 0 \in 0 .. Slides - 1
    BY LandingAssumption
  <2>3. bits \in Bits
    BY <2>1, <2>2 DEF Init, LandingInit, InitialBits, Bits
  <2>4. -1 \in -1 .. Acts - 1
    BY DEF Acts
  <2>5. bits.slide \in 0 .. Slides - 1
    BY <2>3 DEF Bits
  <2> QED
    BY <2>1, <2>2, <2>3, <2>4, <2>5, ActMarks DEF LInv, LandingTypeOK
<1> QED
  BY <1>1, LandingStep, PTL DEF Spec

\* Type correctness of the browser: of the sign-in, the snapshots, the screen
\* and the landing page.
THEOREM BrowserTypes == Spec => []TypeOK
<1>1. AuthTypeOK /\ LiveTypeOK /\ SInv /\ VInv /\ LInv => TypeOK
  <2> SUFFICES ASSUME AuthTypeOK, LiveTypeOK, SInv, VInv, LInv PROVE ScreenTypeOK
    BY DEF TypeOK, LInv
  <2> QED
    BY DEF SInv, Flags, VInv, Routing, Viewing, Feeding, Streamed, AwsView, Observations,
       ScreenTypeOK
<1> QED
  BY <1>1, BrowserSignIn, LiveInvariant, ScreenInvariant, ViewInvariant, LandingInvariant, PTL

(***************************************************************************)
(* The mesh of the landing page.  What the folds of the breadth-first search *)
(* compute is a hypothesis, WaveReachesOnce.                                 *)
(***************************************************************************)

\* The peers whose second timer is among these, and the classes the gossip
\* act shows while these timers are pending.
Waiting(S) == {t.to : t \in {u \in S : u.kind = "immune"}}
WaveMarks(S) == [n \in Node |-> IF n = user1 THEN {"hit"}
                                ELSE IF n \in Waiting(S) THEN {}
                                ELSE IF n \in Reachable \/ still THEN {"immune"}
                                ELSE {}]
Immunized(m) == {n \in Node : "immune" \in m[n]}
ImmuneWires(w) == {e \in Wires : "immune" \in w[e]}

BeforeWave == act \in {-1, 0, 1} => timers = {} /\ marks = Hit /\ wires = Dark
InWave == act = 2 => marks = WaveMarks(timers)
AlongWires == act = 2 /\ ~still =>
                ImmuneWires(wires) = {Wire(Heard[n], n) : n \in Immunized(marks)}
AfterWave == act = 3 => /\ timers = {} /\ wires = Dark
                        /\ marks = [AllImmune EXCEPT ![user2] = {"blocked"}]
                        /\ site = user2
OnlyWaveWaits == timers # {} => act = 2 /\ ~still

MInv == BeforeWave /\ InWave /\ AlongWires /\ AfterWave /\ OnlyWaveWaits

\* Every timer of the wave is for a peer it reaches, and every such peer has
\* its second timer.
LEMMA ScheduleCovers ==
    /\ Waiting(Schedule) = Reachable
    /\ \A t \in Schedule : t.kind \in {"flash", "immune"} /\ t.to \in Reachable
<1>1. \A t \in Schedule : t.kind \in {"flash", "immune"} /\ t.to \in Reachable
  BY DEF Schedule, Reachable, ToSet
<1>2. ASSUME NEW n \in Reachable
      PROVE  n \in Waiting(Schedule)
  <2>1. PICK w \in DOMAIN Waves : \E k \in DOMAIN Waves[w] : n = Waves[w][k]
    BY DEF Reachable, ToSet
  <2>2. PICK k \in DOMAIN Waves[w] : n = Waves[w][k]
    BY <2>1
  <2>3. [due |-> (w - 1) * WaveGap + (k - 1) * IntraGap + EdgeHold, kind |-> "immune",
         to |-> n] \in Schedule
    BY <2>2 DEF Schedule
  <2> QED
    BY <2>3 DEF Waiting
<1> QED
  BY <1>1, <1>2 DEF Waiting

\* Without timers the gossip act is over for every peer it reaches.
LEMMA MeshFromInvariant == ASSUME LInv, MInv PROVE MeshFollowsScroll
<1>1. \A n \in Node : Cardinality(marks[n]) <= 1
  <2>1. Cardinality({}) <= 1 /\ \A x : Cardinality({x}) <= 1
    BY FS_Singleton, FS_EmptySet
  <2>2. act \in -1 .. 3
    BY DEF LInv, LandingTypeOK, Acts
  <2>3. marks = Hit \/ marks = WaveMarks(timers)
          \/ marks = [AllImmune EXCEPT ![user2] = {"blocked"}]
    BY <2>2 DEF MInv, BeforeWave, InWave, AfterWave
  <2>4. \A n \in Node : marks[n] = {} \/ \E x : marks[n] = {x}
    BY <2>3 DEF Hit, Bare, WaveMarks, AllImmune
  <2> QED
    BY <2>1, <2>4, Zenon
<1> QED
  BY <1>1 DEF MInv, BeforeWave, InWave, AlongWires, AfterWave, MeshFollowsScroll, Waiting,
     WaveMarks, Immunized, ImmuneWires

\* A timer that fires takes its peer out of the waiting ones and nothing else.
LEMMA FireKeeps ==
    ASSUME WaveReachesOnce, LInv, MInv, NEW t \in timers, TimerFires(t)
    PROVE  MInv'
<1>1. act = 2 /\ ~still /\ UNCHANGED <<act, still, site>>
  BY DEF MInv, OnlyWaveWaits, TimerFires
<1>2. timers \subseteq Schedule /\ timers' = timers \ {t}
  BY DEF LInv, LandingTypeOK, TimerFires
<1>3. t.kind \in {"flash", "immune"} /\ t.to \in Node \ {user1} /\ t.to \in Reachable
      /\ Wire(Heard[t.to], t.to) \in Wires
  BY <1>2, ScheduleCovers DEF WaveReachesOnce
<1>4. /\ marks = WaveMarks(timers)
      /\ ImmuneWires(wires) = {Wire(Heard[n], n) : n \in Immunized(marks)}
      /\ wires \in [Wires -> SUBSET {"active", "immune"}]
  BY <1>1 DEF MInv, InWave, AlongWires, LInv, LandingTypeOK
<1>5. CASE t.kind = "flash"
  <2>1. Waiting(timers') = Waiting(timers)
    BY <1>2, <1>5 DEF Waiting
  <2>2. marks' = marks /\ WaveMarks(timers)' = WaveMarks(timers)
    BY <1>1, <1>5, <2>1 DEF TimerFires, WaveMarks
  <2>3. wires' = [wires EXCEPT ![Wire(Heard[t.to], t.to)] = @ \cup {"active"}]
    BY <1>5 DEF TimerFires
  <2>4. ImmuneWires(wires') = ImmuneWires(wires)
    BY <1>4, <2>3 DEF ImmuneWires
  <2> QED
    BY <1>1, <1>4, <2>2, <2>4 DEF MInv, BeforeWave, InWave, AlongWires, AfterWave, OnlyWaveWaits
<1>6. CASE t.kind = "immune"
  <2>1. Waiting(timers') = Waiting(timers) \ {t.to} /\ t.to \in Waiting(timers)
    BY <1>2, <1>6 DEF Waiting, WaveReachesOnce
  <2>2. marks' = [marks EXCEPT ![t.to] = IF "hit" \in @ THEN @ ELSE @ \cup {"immune"}]
    BY <1>6 DEF TimerFires
  <2>3. marks[t.to] = {} /\ DOMAIN marks = Node
    BY <1>3, <1>4, <2>1 DEF WaveMarks
  <2>4. marks' = [marks EXCEPT ![t.to] = {"immune"}]
    BY <2>2, <2>3
  <2>5. marks' = WaveMarks(timers)'
    BY <1>1, <1>3, <1>4, <2>1, <2>4 DEF WaveMarks
  <2>6. wires' = [wires EXCEPT ![Wire(Heard[t.to], t.to)] = @ \cup {"immune"}]
    BY <1>6 DEF TimerFires
  <2>7. ImmuneWires(wires') = ImmuneWires(wires) \cup {Wire(Heard[t.to], t.to)}
    BY <1>3, <1>4, <2>6 DEF ImmuneWires
  <2>8. Immunized(marks') = Immunized(marks) \cup {t.to}
    BY <1>3, <2>3, <2>4 DEF Immunized
  <2>9. ImmuneWires(wires') = {Wire(Heard[n], n) : n \in Immunized(marks')}
    BY <1>4, <2>7, <2>8
  <2> QED
    BY <1>1, <2>5, <2>9 DEF MInv, BeforeWave, InWave, AlongWires, AfterWave, OnlyWaveWaits
<1> QED
  BY <1>3, <1>5, <1>6

\* Entering an act starts it clean (applyAct).
LEMMA ActKeeps ==
    ASSUME LInv, NEW p \in 0 .. Scale, ScrollNetwork(p)
    PROVE  MInv'
<1>1. act' \in {0, 1, 2, 3} /\ still' = still
  <2>1. act' \in 0 .. Acts - 1
    BY ActOfSection DEF ScrollNetwork, Acts
  <2> QED
    BY <2>1 DEF Acts, ScrollNetwork
<1>2. ApplyAct(act')
  BY DEF ScrollNetwork
<1>3. CASE act' \in {0, 1}
  BY <1>2, <1>3 DEF ApplyAct, Attack, ClearAll, MInv, BeforeWave, InWave, AlongWires,
     AfterWave, OnlyWaveWaits
<1>4. CASE act' = 3
  BY <1>2, <1>4 DEF ApplyAct, Twin, ClearAll, MInv, BeforeWave, InWave, AlongWires,
     AfterWave, OnlyWaveWaits
<1>5. CASE act' = 2
  <2>1. Gossip
    BY <1>2, <1>5 DEF ApplyAct
  <2>2. CASE still
    <3>1. timers' = {} /\ marks' = AllImmune
      BY <2>1, <2>2 DEF Gossip
    <3>2. WaveMarks(timers)' = AllImmune
      BY <1>1, <2>2, <3>1 DEF WaveMarks, Waiting, AllImmune
    <3> QED
      BY <1>1, <1>5, <2>2, <3>1, <3>2 DEF MInv, BeforeWave, InWave, AlongWires, AfterWave,
         OnlyWaveWaits
  <2>3. CASE ~still
    <3>1. timers' = Schedule /\ marks' = Hit /\ wires' = Dark
      BY <2>1, <2>3 DEF Gossip
    <3>2. Waiting(timers') = Reachable
      BY <3>1, ScheduleCovers
    <3>3. WaveMarks(timers)' = Hit
      BY <1>1, <2>3, <3>2, LandingAssumption DEF WaveMarks, Hit, Bare
    <3>4. Immunized(marks') = {} /\ ImmuneWires(wires') = {}
      BY <3>1, LandingAssumption DEF Immunized, ImmuneWires, Hit, Bare, Dark
    <3> QED
      BY <1>1, <1>5, <2>3, <3>1, <3>3, <3>4 DEF MInv, BeforeWave, InWave, AlongWires,
         AfterWave, OnlyWaveWaits
  <2> QED
    BY <2>2, <2>3
<1> QED
  BY <1>1, <1>3, <1>4, <1>5

LEMMA MeshStep == ASSUME WaveReachesOnce, LInv, MInv, [Next]_vars PROVE MInv'
<1>1. CASE UNCHANGED <<still, act, marks, wires, site, timers>>
  BY <1>1 DEF MInv, BeforeWave, InWave, AlongWires, AfterWave, OnlyWaveWaits, WaveMarks
<1>2. CASE OpenConsole \/ OpenLanding
  BY <1>2 DEF OpenConsole, OpenLanding, LoadLanding, LandingLoaded, MInv, BeforeWave, InWave,
     AlongWires, AfterWave, OnlyWaveWaits
<1>3. CASE Animates
  BY <1>1, <1>3, ActKeeps, FireKeeps DEF Animates, ScrollStory, ScrollRail, RevealSpecimen,
     Annotate, ScrollInOrOut, NextSlide, Flash, Animate
<1>4. CASE ~Animates /\ ~OpenConsole /\ ~OpenLanding
  BY <1>1, <1>4, OthersLeaveLanding DEF landingVars
<1> QED
  BY <1>2, <1>3, <1>4

\* Whenever the breadth-first search reaches every peer of the wave once, the
\* mesh on screen is the one of the act scrolled to: a wave left behind colours
\* nothing later, and in the gossip act exactly the peers whose timers are
\* pending are untouched (applyAct in animations.js).
THEOREM MeshFollowsTheScroll == WaveReachesOnce => (Spec => []MeshFollowsScroll)
<1> SUFFICES ASSUME WaveReachesOnce PROVE Spec => []MeshFollowsScroll
  OBVIOUS
<1>1. Init => MInv
  BY DEF Init, LandingInit, MInv, BeforeWave, InWave, AlongWires, AfterWave, OnlyWaveWaits
<1>2. LInv /\ MInv /\ [Next]_vars => MInv'
  BY MeshStep
<1>3. LInv /\ MInv => MeshFollowsScroll
  BY MeshFromInvariant
<1> QED
  BY <1>1, <1>2, <1>3, LandingInvariant, PTL DEF Spec

=============================================================================
