----------------------------- MODULE MCFrontend -----------------------------
(* The frontend in parts: a behaviour keeps one focus, which decides what    *)
(* the operator and the polls start in it.  Answers, frames and observers    *)
(* are free in every focus, so that nothing fair is kept from happening.     *)
(* Together the foci start every action of Frontend.                         *)
EXTENDS Frontend

ASSUME MCWave == WaveReachesOnce

VARIABLE focus

Foci == {"auth", "data", "mesh", "story"} \cup Routes

(***************************************************************************)
(* Verdicts, fleet, audit trail and topologies.                            *)
(***************************************************************************)
Row(t, a, mod, v, tag) ==
    [time |-> t, agent |-> a, mod |-> mod, verdict |-> v, tag |-> tag]

MCFirstVerdicts == << Row(3, "s1", "text", "block", "x"),
                      Row(2, "s2", "text", "quar", "y"),
                      Row(1, "s1", "image", "pass", "x") >>
MCVerdictPool == << Row(1, "s2", "text", "block", "x"),
                    Row(0, "s3", "text", "pass", "y"),
                    Row(0, "s1", "image", "quar", "x") >>

\* Live feeds: empty, one seat twice in a window, and a crowd with a seat alone
\* in its window under a dash for a time.
Feed1 == << Row(2, "s1", "text", "block", "x"), Row(3, "s1", "text", "pass", "y") >>
Feed2 == << Row(3, "s1", "text", "block", "x"), Row(2, "s2", "text", "pass", "y"),
            Row(NoTime, "s2", "image", "quar", "x"), Row(1, "s3", "text", "pass", "x") >>
MCFeeds == {<<>>, Feed1, Feed2}

Agent(id, status, tag, blocked) ==
    [id |-> id, status |-> status, tag |-> tag, blocked |-> blocked]
MCRoster == << Agent(1, "healthy", "x", 7), Agent(2, "warning", "y", 7),
               Agent(3, "healthy", "y", 2), Agent(4, "healthy", "x", 9),
               Agent(5, "warning", "x", 2) >>

Event(kind, tag) == [kind |-> kind, tag |-> tag]
MCAuditLog == << Event("auth", "x"), Event("chain", "y"), Event("auth", "y"),
                 Event("agent", "x"), Event("security", "y") >>

Peer(id, role, group) == [id |-> id, role |-> role, group |-> group]
Edge(from, to) == [from |-> from, to |-> to]

\* Node 1 is this node; 9 is no node of the mesh.
Named == [self |-> 1,
          nodes |-> << Peer(3, "peer", "a"), Peer(1, "peer", "a"),
                       Peer(5, "peer", "b"), Peer(7, "peer", "other"),
                       Peer(8, "validator", "other"), Peer(6, "validator", "other") >>,
          edges |-> << Edge(5, 3), Edge(1, 8), Edge(8, 1), Edge(NoId, 1),
                       Edge(1, 9), Edge(1, 3), Edge(3, 5) >>]
ReverseFirst == [Named EXCEPT !.edges = << Edge(3, 1), Edge(1, 3), Edge(1, 5) >>]
Halved == [self |-> 2,
           nodes |-> << Peer(4, "peer", "other"), Peer(2, "peer", "other"),
                        Peer(6, "peer", "other"), Peer(8, "validator", "other") >>,
           edges |-> << Edge(9, 2), Edge(2, 4), Edge(4, 6), Edge(2, 8) >>]
NoNodes == [self |-> 2, nodes |-> <<>>, edges |-> << Edge(2, 4) >>]
Stranger == [Halved EXCEPT !.self = 9]

MCMockTopology == Halved
MCTopologies == {Named, ReverseFirst, NoNodes, Stranger}

\* A mesh with cycles, where p3 hears from u2 of its own ring and nothing
\* reaches far.
MCOrder == <<"u1", "p1", "p2", "p3", "u2", "far">>
MCNode == {MCOrder[i] : i \in DOMAIN MCOrder}
MCNearest == [n \in MCNode |->
    CASE n = "u1"  -> <<"p1", "p2">>
      [] n = "p1"  -> <<"u1", "p2">>
      [] n = "p2"  -> <<"p1", "u2">>
      [] n = "p3"  -> <<"u2", "p2">>
      [] n = "u2"  -> <<"p3">>
      [] n = "far" -> <<>>]

(***************************************************************************)
(* What starts in a focus.                                                 *)
(***************************************************************************)
First == CHOOSE a \in Account : TRUE

Signs ==
    \/ FillForm /\ (focus = "auth" \/ BeginSignIn(First))
    \/ focus # "mesh" /\ LeaveSession
    \/ focus = "auth" /\ AskAgain

Polled == CASE focus = "data"     -> Endpoint
            [] focus = "registry" -> {"topology"}
            [] OTHER              -> {}

Polls ==
    \/ focus \in {"data", "overview", "settings"} /\ PollHealth
    \/ /\ \E e \in Polled : Poll(e)
       /\ focus = "data" => live'.topology \in {Unset, Named, NoNodes}
    \/ focus \in {"data", "overview", "settings"} /\ Killswitch

Shows ==
    \/ focus \in Routes /\ \E v \in {"overview", focus} : Goes(v)
    \/ focus = "settings" /\ \E v \in Routes : Goes(v)
    \/ focus = "attacks" /\ Clicks
    \/ route = focus /\ UsesView
    \/ focus = "aws" /\ Scrolls
    \/ focus = "overview" /\ StreamTicks
    \/ focus \in {"overview", "aws"} /\ Visibility

Pages ==
    \/ OpenConsole
    \/ focus \in {"auth", "mesh", "story"} /\ OpenLanding

\* The mesh and the small animations, or the sections that follow the scroll.
Moves ==
    /\ Animates
    /\ \/ focus = "mesh" /\ UNCHANGED <<story, rail>>
       \/ focus = "story" /\ UNCHANGED <<act, timers, bits>>

MCInit ==
    /\ Init
    /\ focus \in Foci
    /\ focus = "auth" \/ storage
    /\ reduced => focus = "overview"
    /\ still => focus \in {"mesh", "story"}

MCNext ==
    /\ \/ Signs \/ Polls \/ Shows \/ Pages \/ Moves
       \/ \E c \in CallId : CognitoAnswers(c)
       \/ ObserverDelivers \/ AnimationFrame
    /\ UNCHANGED focus

MCSpec == MCInit /\ [][MCNext]_<<vars, focus>> /\ Fairness

=============================================================================
