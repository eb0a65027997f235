--------------------------- MODULE ConsoleScreen ---------------------------
(* What the operator's screen keeps besides session and snapshots: route,    *)
(* drawer and user menu of the store (state.js), the streamed verdicts with  *)
(* their timer (dashboard.js), and the local state of every view             *)
(* (views/*.js).  A view re-renders by going to its own route; every change  *)
(* of the store asks for an animation frame, which starts or stops the       *)
(* stream.                                                                   *)
EXTENDS Integers, FiniteSets, Sequences

CONSTANTS
    Nothing,        \* null
    VerdictPool,    \* the verdicts that are streamed, cyclically
    FirstVerdicts,  \* the verdicts on screen before the stream
    Steps,          \* by how much the stream's clock may advance
    Day,            \* the clock's period
    Roster,         \* the fleet: a sequence of [id, status, tag, blocked]
    PageSize,       \* rows of the fleet on a page (15)
    AuditLog,       \* the audit trail: a sequence of [kind, tag]
    Services        \* the cards of the AWS view

ASSUME ScreenAssumption ==
    /\ VerdictPool # <<>> /\ Day \in Nat \ {0} /\ Steps \subseteq Nat
    /\ Roster \in Seq([id : Int, status : STRING, tag : STRING, blocked : Int])
    /\ PageSize \in Nat \ {0} /\ IsFiniteSet(Services) /\ Services # {}

VARIABLES
    route, drawer, menu,    \* state.route, whether a verdict's drawer is open,
                            \* state.userMenuOpen
    stream,     \* the verdicts shown, the stream's clock and its pool cursor
    ticker,     \* the stream's interval is armed
    frame,      \* an animation frame is asked for
    hidden,     \* the tab is hidden
    reduced,    \* the operator prefers reduced motion
    views,      \* the views' local state
    observed,   \* entries the AWS view's observers are about to deliver
    chosen,     \* history: the route the operator chose last
    pulled      \* history: an observer has changed the route since

screenVars == <<route, drawer, menu, stream, ticker, frame, hidden, reduced,
                views, observed, chosen, pulled>>
localVars == <<views, observed>>
streamVars == <<stream, ticker, hidden, reduced>>

Routes == {"overview", "attacks", "registry", "agents", "audit", "settings", "aws"}
Terms == {"", "x"}      \* a search box is empty, or finds the rows tagged x

InitialStream == [verdicts |-> FirstVerdicts, clock |-> 0, cursor |-> 0]
FirstService == CHOOSE s \in Services : TRUE

InitialViews ==
    [attacks  |-> [filter |-> "all", search |-> ""],
     registry |-> [selected |-> Nothing, hover |-> Nothing, playing |-> TRUE],
     agents   |-> [q |-> "", statusFilter |-> "all", sortBy |-> "blocked",
                   sortDir |-> "desc", page |-> 0],
     audit    |-> [filter |-> "all", search |-> "", expanded |-> Nothing],
     settings |-> [failClosed |-> TRUE, notifySlack |-> FALSE],
     aws      |-> [active |-> FirstService, open |-> {}, revealed |-> {}]]

Unobserved == [spy |-> Nothing, reveal |-> {}]

(***************************************************************************)
(* Routing.                                                                *)
(***************************************************************************)
Emit == frame' = TRUE

Goto(v) ==
    /\ route' = v
    /\ drawer' = FALSE /\ menu' = FALSE
    /\ Emit

\* The operator goes to another view.
Navigate(v) ==
    /\ Goto(v)
    /\ chosen' = v /\ pulled' = FALSE
    /\ UNCHANGED <<streamVars, localVars>>

\* A view's handler changes its local state and renders by going to itself.
Rerender(v) == Goto(v) /\ UNCHANGED <<streamVars, observed, chosen, pulled>>

Handled(v, s) ==
    /\ route = v
    /\ views' = [views EXCEPT ![v] = s]
    /\ Rerender(v)

\* An observer's callback renders the AWS view wherever the operator is.
Pull == Goto("aws") /\ pulled' = (chosen # "aws") /\ UNCHANGED <<streamVars, chosen>>

(***************************************************************************)
(* Drawer, menu and notices.                                               *)
(***************************************************************************)
OpenDrawer ==
    /\ route \in {"overview", "attacks"}
    /\ drawer' = TRUE
    /\ Emit
    /\ UNCHANGED <<route, menu, streamVars, localVars, chosen, pulled>>

CloseDrawer ==
    /\ drawer
    /\ drawer' = FALSE
    /\ Emit
    /\ UNCHANGED <<route, menu, streamVars, localVars, chosen, pulled>>

ToggleUserMenu ==
    /\ menu' = ~menu
    /\ Emit
    /\ UNCHANGED <<route, drawer, streamVars, localVars, chosen, pulled>>

CloseUserMenu ==
    /\ menu
    /\ menu' = FALSE
    /\ Emit
    /\ UNCHANGED <<route, drawer, streamVars, localVars, chosen, pulled>>

\* A button that only raises a toast.
Notice ==
    /\ Emit
    /\ UNCHANGED <<route, drawer, menu, streamVars, localVars, chosen, pulled>>

(***************************************************************************)
(* The streamed verdicts.                                                  *)
(***************************************************************************)
Tick ==
    /\ ticker
    /\ \E step \in Steps :
         LET now == (stream.clock + step) % Day
             src == VerdictPool[(stream.cursor % Len(VerdictPool)) + 1]
         IN  stream' = [verdicts |-> <<[src EXCEPT !.time = now]>> \o
                           SubSeq(stream.verdicts, 1, Len(FirstVerdicts) - 1),
                        clock |-> now,
                        cursor |-> (stream.cursor + 1) % Len(VerdictPool)]
    /\ Emit
    /\ UNCHANGED <<route, drawer, menu, ticker, hidden, reduced, localVars,
                   chosen, pulled>>

Streams(signedIn) == route = "overview" /\ signedIn /\ ~reduced

Frame(signedIn) ==
    /\ frame /\ ~hidden
    /\ frame' = FALSE
    /\ ticker' = Streams(signedIn)
    /\ UNCHANGED <<route, drawer, menu, stream, hidden, reduced, localVars,
                   chosen, pulled>>

\* Mutant: a hidden tab goes on streaming.
HideKeepsTicker ==
    /\ ~hidden
    /\ hidden' = TRUE
    /\ UNCHANGED <<route, drawer, menu, stream, ticker, frame, reduced, localVars,
                   chosen, pulled>>

Hide ==
    /\ ~hidden
    /\ hidden' = TRUE
    /\ ticker' = FALSE
    /\ UNCHANGED <<route, drawer, menu, stream, frame, reduced, localVars,
                   chosen, pulled>>

Show(signedIn) ==
    /\ hidden
    /\ hidden' = FALSE
    /\ ticker' = Streams(signedIn)
    /\ UNCHANGED <<route, drawer, menu, stream, frame, reduced, localVars,
                   chosen, pulled>>

(***************************************************************************)
(* The views.                                                              *)
(***************************************************************************)

\* attacks.js: the filter buttons and the search box.
AttacksHandler ==
    \/ \E f \in {"all", "block", "quar", "pass"} :
         Handled("attacks", [views.attacks EXCEPT !.filter = f])
    \/ \E q \in Terms : Handled("attacks", [views.attacks EXCEPT !.search = q])

\* registry.js: nodes of the graph on screen, the detail panel and its chips.
Pin(n) == [views.registry EXCEPT !.selected = n]

RegistryHandler(nodes, neighbors) ==
    LET g == views.registry
    IN  \/ \E n \in nodes : Handled("registry",
               Pin(IF g.selected = n THEN Nothing ELSE n))
        \/ g.selected \in nodes /\ Handled("registry", Pin(Nothing))
        \/ /\ g.selected \in nodes
           /\ \E n \in neighbors[g.selected] : Handled("registry", Pin(n))
        \/ \E n \in nodes : Handled("registry", [g EXCEPT !.hover = n])
        \/ nodes # {} /\ Handled("registry", [g EXCEPT !.hover = Nothing])
        \/ nodes # {} /\ Handled("registry", [g EXCEPT !.playing = ~@])

\* agents.js: search, status filter, sort headers and pager.
Matching(a) ==
    {i \in DOMAIN Roster : /\ a.q \in {"", Roster[i].tag}
                           /\ a.statusFilter \in {"all", Roster[i].status}}
PageCount(a) ==
    LET n == (Cardinality(Matching(a)) + PageSize - 1) \div PageSize
    IN  IF n = 0 THEN 1 ELSE n
Clamped(a) == [a EXCEPT !.page = IF @ < PageCount(a) THEN @ ELSE PageCount(a) - 1]
FirstPage(a) == [a EXCEPT !.page = 0]
SortedBy(a, key) ==
    IF a.sortBy = key
    THEN [a EXCEPT !.sortDir = IF @ = "asc" THEN "desc" ELSE "asc"]
    ELSE [a EXCEPT !.sortBy = key, !.sortDir = "desc"]

\* The rows of the page; equal keys keep their order.
SortRank(a, i) ==
    LET key(j) == Roster[j][a.sortBy]
        Before(j) == \/ key(j) = key(i) /\ j < i
                     \/ a.sortDir = "asc" /\ key(j) < key(i)
                     \/ a.sortDir = "desc" /\ key(j) > key(i)
    IN  Cardinality({j \in Matching(a) : Before(j)})
PageRows(a) ==
    {i \in Matching(a) :
        SortRank(a, i) \in a.page * PageSize .. (a.page + 1) * PageSize - 1}

AgentsHandler ==
    LET a == views.agents
        Show1(b) == Handled("agents", Clamped(b))
    IN  \/ \E q \in Terms : Show1(FirstPage([a EXCEPT !.q = q]))
        \/ \E s \in {"all", "healthy", "warning"} :
              Show1(FirstPage([a EXCEPT !.statusFilter = s]))
        \/ \E key \in {"id", "blocked"} : Show1(FirstPage(SortedBy(a, key)))
        \/ a.page # 0 /\ Show1([a EXCEPT !.page = @ - 1])
        \/ a.page < PageCount(a) - 1 /\ Show1([a EXCEPT !.page = @ + 1])

\* audit.js: filter, search, and the one row that is opened.
AuditRows(a) ==
    {i \in DOMAIN AuditLog : /\ a.filter \in {"all", AuditLog[i].kind}
                             /\ a.search \in {"", AuditLog[i].tag}}
FilterAudit(a, f) == [a EXCEPT !.filter = f, !.expanded = Nothing]
\* Mutant: searching keeps the row opened.
SearchAuditKeepsRow(a, q) == [a EXCEPT !.search = q]
SearchAudit(a, q) == [a EXCEPT !.search = q, !.expanded = Nothing]
ExpandRow(a, i) == [a EXCEPT !.expanded = IF @ = i THEN Nothing ELSE i]

AuditHandler ==
    LET a == views.audit
    IN  \/ \E f \in {"all", "auth", "chain", "agent", "security"} :
              Handled("audit", FilterAudit(a, f))
        \/ \E q \in Terms : Handled("audit", SearchAudit(a, q))
        \/ \E i \in AuditRows(a) : Handled("audit", ExpandRow(a, i))

\* settings.js: the toggles (two of the five stand for all).
SettingsHandler ==
    \E key \in DOMAIN views.settings :
        Handled("settings", [views.settings EXCEPT ![key] = ~@])

\* aws.js: tabs and questions, and the observers of the cards.
AwsHandler ==
    LET w == views.aws
    IN  \E s \in Services :
          \/ Handled("aws", [w EXCEPT !.active = s])
          \/ Handled("aws", [w EXCEPT !.open = IF s \in @ THEN @ \ {s}
                                               ELSE @ \cup {s}])

\* The browser notes that a card has come into sight.
Intersect ==
    /\ route = "aws"
    /\ \E s \in Services :
         \/ observed' = [observed EXCEPT !.spy = s]
         \/ observed' = [observed EXCEPT !.reveal = @ \cup {s}]
    /\ UNCHANGED <<route, drawer, menu, streamVars, frame, views, chosen, pulled>>

\* The callback runs later; it renders only when it changes something.
SpyDelivered ==
    /\ observed.spy # Nothing
    /\ observed' = [observed EXCEPT !.spy = Nothing]
    /\ \/ /\ observed.spy # views.aws.active
          /\ views' = [views EXCEPT !.aws.active = observed.spy]
          /\ Pull
       \/ /\ observed.spy = views.aws.active
          /\ UNCHANGED <<views, route, drawer, menu, streamVars, frame, chosen,
                         pulled>>

RevealDelivered ==
    /\ observed.reveal # {}
    /\ observed' = [observed EXCEPT !.reveal = {}]
    /\ \/ /\ ~(observed.reveal \subseteq views.aws.revealed)
          /\ views' = [views EXCEPT !.aws.revealed = @ \cup observed.reveal]
          /\ Pull
       \/ /\ observed.reveal \subseteq views.aws.revealed
          /\ UNCHANGED <<views, route, drawer, menu, streamVars, frame, chosen,
                         pulled>>

(***************************************************************************)
(* The store starts over.                                                  *)
(***************************************************************************)
Landed ==
    /\ route' = "overview" /\ chosen' = "overview" /\ pulled' = FALSE
    /\ drawer' = FALSE /\ menu' = FALSE
    /\ Emit

\* Mutant: signing in keeps the route.
ScreenSignedInThere ==
    /\ chosen' = "overview" /\ pulled' = FALSE
    /\ drawer' = FALSE /\ menu' = FALSE
    /\ Emit
    /\ UNCHANGED <<route, streamVars, localVars>>

\* Signing in keeps the verdicts on screen, signing out restores the first.
ScreenSignedIn == Landed /\ UNCHANGED <<streamVars, localVars>>

ScreenSignedOut ==
    /\ Landed
    /\ stream' = [stream EXCEPT !.verdicts = FirstVerdicts]
    /\ UNCHANGED <<ticker, hidden, reduced, localVars>>

LoadScreen ==
    /\ Landed
    /\ stream' = InitialStream /\ ticker' = FALSE
    /\ views' = InitialViews /\ observed' = Unobserved
    /\ UNCHANGED <<hidden, reduced>>

ScreenInit ==
    /\ route = "overview" /\ chosen = "overview" /\ pulled = FALSE
    /\ drawer = FALSE /\ menu = FALSE
    /\ stream = InitialStream /\ ticker = FALSE /\ frame = FALSE
    /\ hidden = FALSE /\ reduced \in BOOLEAN
    /\ views = InitialViews /\ observed = Unobserved

(***************************************************************************)
(* Properties.                                                             *)
(***************************************************************************)
\* Type correctness of the screen.
ScreenTypeOK ==
    /\ route \in Routes /\ chosen \in Routes
    /\ {drawer, menu, ticker, frame, hidden, reduced, pulled} \subseteq BOOLEAN
    /\ stream.clock \in 0 .. Day - 1
    /\ stream.cursor \in 0 .. Len(VerdictPool) - 1
    /\ Len(stream.verdicts) = Len(FirstVerdicts)
    /\ views.aws.active \in Services
    /\ observed.spy \in Services \cup {Nothing} /\ observed.reveal \subseteq Services

\* The table under a filter has what its footer counts: an opened audit row
\* is one of the rows listed, and a page of the fleet is empty only when no
\* agent matches, however filters, order, page and search box were combined.
ViewsShowTheirRows ==
    /\ views.audit.expanded # Nothing =>
          views.audit.expanded \in AuditRows(views.audit)
    /\ Matching(views.agents) # {} => PageRows(views.agents) # {}
    /\ Cardinality(PageRows(views.agents)) <= PageSize

=============================================================================
