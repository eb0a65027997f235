------------------------------ MODULE Landing ------------------------------
(* The landing page (animations.js, data.js): a mesh of peers coloured act   *)
(* by act as the reader scrolls, the gossip wave that timers play in act 2,  *)
(* the story and the pipeline rail that follow their own sections, and the   *)
(* small animations that run while they are in sight.                        *)
EXTENDS Integers, FiniteSets, SequencesExt

CONSTANTS
    Node,       \* the peers of the mesh
    Nearest,    \* for every peer, the peers it connects to, nearest first
    Order,      \* the peers in the order they were laid out
    user1,      \* the peer that is attacked
    user2,      \* the peer that meets the twin
    WaveGap, IntraGap, EdgeHold,    \* 360, 40 and 260 ms
    StoryActs,  \* panels of the story (4)
    Stages,     \* stages of the pipeline rail (4)
    Slides,     \* lines of the modality ticker (4)
    Scale       \* scroll progress is 0 .. Scale

ASSUME LandingAssumption ==
    /\ ToSet(Order) = Node /\ {user1, user2} \subseteq Node /\ user1 # user2
    /\ Nearest \in [Node -> Seq(Node)]
    /\ \A n \in Node : n \notin ToSet(Nearest[n])
    /\ {WaveGap, IntraGap, EdgeHold} \subseteq Nat
    /\ {StoryActs, Stages, Slides, Scale} \subseteq Nat \ {0}

VARIABLES
    still,      \* the reader prefers reduced motion
    act,        \* the act on the mesh section, -1 before the first scroll
    marks,      \* the classes of every peer
    wires,      \* the classes of every edge
    site,       \* which peer's site label is shown
    timers,     \* the pending timers of the gossip wave
    story,      \* the story's act, -1 before the first scroll
    rail,       \* the stage of the rail the payload has reached, -1 for none
    bits        \* specimen, ticker and flash

landingVars == <<still, act, marks, wires, site, timers, story, rail, bits>>

(***************************************************************************)
(* The mesh.  Edges are undirected and drawn once; a peer's neighbours are   *)
(* kept in the order in which their edges were added.                        *)
(***************************************************************************)
Links ==
    LET Link(known, n) ==
          FoldLeft(LAMBDA es, m : IF \E i \in DOMAIN es : ToSet(es[i]) = {n, m}
                                  THEN es ELSE Append(es, <<n, m>>),
                   known, Nearest[n])
    IN  FoldLeft(Link, <<>>, Order)

Wire(a, b) == {a, b}
Wires == {ToSet(Links[i]) : i \in DOMAIN Links}

Adjacency == [n \in Node |->
    LET mine == SelectSeq(Links, LAMBDA l : n \in ToSet(l))
    IN  [i \in DOMAIN mine |-> IF mine[i][1] = n THEN mine[i][2] ELSE mine[i][1]]]

\* Breadth-first rings around a peer.
Waves ==
    LET Seen(rings) == UNION {ToSet(rings[i]) : i \in DOMAIN rings}
        Reach(next, id) ==
          FoldLeft(LAMBDA r, m : IF m \in r.seen THEN r
                                 ELSE [seen |-> r.seen \cup {m}, ring |-> Append(r.ring, m)],
                   next, Adjacency[id])
        ring[k \in 0 .. Cardinality(Node)] ==
          IF k = 0 THEN [seen |-> {user1}, ring |-> <<user1>>]
          ELSE FoldLeft(Reach, [seen |-> ring[k-1].seen, ring |-> <<>>], ring[k-1].ring)
    IN  [k \in 1 .. Cardinality(Node) |-> ring[k].ring]

Reachable == UNION {ToSet(Waves[k]) : k \in DOMAIN Waves}

\* The neighbour a peer hears from: the first of its neighbours that comes
\* before it in the rings, the ring it is in included.
Heard ==
    LET line == <<user1>> \o FlattenSeq(Waves)
        At(n) == CHOOSE i \in DOMAIN line : line[i] = n
    IN  [n \in Reachable |->
           LET before(m) == m \in ToSet(line) /\ At(m) < At(n)
           IN  SelectSeq(Adjacency[n], before)[1]]

\* The two timers of every peer reached: its edge flashes, then it is immune.
Schedule ==
    UNION {UNION {
        LET id == Waves[w][k]
            base == (w - 1) * WaveGap + (k - 1) * IntraGap
        IN  {[due |-> base, kind |-> "flash", to |-> id],
             [due |-> base + EdgeHold, kind |-> "immune", to |-> id]}
        : k \in DOMAIN Waves[w]} : w \in DOMAIN Waves}

\* What the breadth-first search owes to the wave: it reaches peers of the mesh
\* other than the first, along edges of the mesh, and each of them once.
WaveReachesOnce ==
    /\ Reachable \subseteq Node \ {user1}
    /\ \A n \in Reachable : Wire(Heard[n], n) \in Wires
    /\ \A t, u \in Schedule :
         t.kind = "immune" /\ u.kind = "immune" /\ t.to = u.to => t = u

(***************************************************************************)
(* The acts: 0 attack, 1 detect, 2 gossip, 3 twin.                           *)
(***************************************************************************)
Acts == 4
Bare == [n \in Node |-> {}]
Dark == [e \in Wires |-> {}]
Hit == [Bare EXCEPT ![user1] = {"hit"}]
AllImmune == [n \in Node |-> IF n = user1 THEN {"hit"} ELSE {"immune"}]

\* Mutant: the classes are cleared but the timers stay.
ClearClassesOnly == timers' = timers /\ wires' = Dark

\* clearAll cancels the wave's timers and takes every class off.
ClearAll == timers' = {} /\ wires' = Dark

Attack == ClearAll /\ marks' = Hit /\ site' = user1
Gossip ==
    /\ wires' = Dark
    /\ site' = user1
    /\ \/ still /\ timers' = {} /\ marks' = AllImmune
       \/ ~still /\ timers' = Schedule /\ marks' = Hit
Twin ==
    /\ ClearAll
    /\ marks' = [AllImmune EXCEPT ![user2] = {"blocked"}]
    /\ site' = user2

ApplyAct(idx) ==
    \/ idx \in {0, 1} /\ Attack
    \/ idx = 2 /\ Gossip
    \/ idx = 3 /\ Twin

\* Mutant: the end of a section is an act of its own.
ActAtUncapped(p, n) == (p * n) \div Scale

ActAt(p, n) == IF (p * n) \div Scale < n THEN (p * n) \div Scale ELSE n - 1

\* The section's scroll position changes; nothing is done within an act.
ScrollNetwork(p) ==
    /\ act # ActAt(p, Acts)
    /\ act' = ActAt(p, Acts)
    /\ ApplyAct(act')
    /\ UNCHANGED <<still, story, rail, bits>>

\* The timers fire in the order they are due.
TimerFires(t) ==
    /\ t \in timers
    /\ \A other \in timers : t.due <= other.due
    /\ timers' = timers \ {t}
    /\ LET wire == Wire(Heard[t.to], t.to)
       IN  IF t.kind = "flash"
           THEN /\ wires' = [wires EXCEPT ![wire] = @ \cup {"active"}]
                /\ UNCHANGED marks
           ELSE /\ wires' = [wires EXCEPT ![wire] = @ \cup {"immune"}]
                /\ marks' = [marks EXCEPT ![t.to] =
                               IF "hit" \in @ THEN @ ELSE @ \cup {"immune"}]
    /\ UNCHANGED <<still, act, site, story, rail, bits>>

(***************************************************************************)
(* The story and the rail.                                                 *)
(***************************************************************************)
ScrollStory(p) ==
    /\ story # ActAt(p, StoryActs)
    /\ story' = ActAt(p, StoryActs)
    /\ UNCHANGED <<still, act, marks, wires, site, timers, rail, bits>>

\* The stages up to this one are lit, and at the last one the verdict says
\* BLOCKED.  Reduced motion lights all at once and follows no scrolling.
ScrollRail(p) ==
    /\ ~still
    /\ rail # ActAt(p, Stages)
    /\ rail' = ActAt(p, Stages)
    /\ UNCHANGED <<still, act, marks, wires, site, timers, story, bits>>

(***************************************************************************)
(* Small animations: the specimen of the problem section, the modality       *)
(* ticker and the flash of the hidden line in the hero's email.              *)
(***************************************************************************)
InitialBits == [hidden |-> still, annot |-> still, slide |-> 0, sight |-> TRUE,
                flash |-> IF still THEN "lit" ELSE "waiting"]

Animate(b) ==
    /\ ~still
    /\ bits' = b
    /\ UNCHANGED <<still, act, marks, wires, site, timers, story, rail>>

RevealSpecimen == ~bits.hidden /\ Animate([bits EXCEPT !.hidden = TRUE])
Annotate == bits.hidden /\ ~bits.annot /\ Animate([bits EXCEPT !.annot = TRUE])
ScrollInOrOut == Animate([bits EXCEPT !.sight = ~@])
NextSlide == bits.sight /\ Animate([bits EXCEPT !.slide = (@ + 1) % Slides])
Flash ==
    \/ bits.flash = "waiting" /\ bits.sight /\ Animate([bits EXCEPT !.flash = "lit"])
    \/ bits.flash = "lit" /\ Animate([bits EXCEPT !.flash = "waiting"])

(***************************************************************************)
(* Loading.                                                                *)
(***************************************************************************)
LandingLoaded(rests) ==
    /\ act' = -1 /\ marks' = Hit /\ wires' = Dark /\ site' = user1 /\ timers' = {}
    /\ story' = -1
    /\ rail' = IF rests THEN Stages - 1 ELSE -1
    /\ bits' = InitialBits
    /\ UNCHANGED still
LoadLanding == LandingLoaded(still)

LandingInit ==
    /\ still \in BOOLEAN
    /\ act = -1 /\ marks = Hit /\ wires = Dark /\ site = user1 /\ timers = {}
    /\ story = -1
    /\ rail = IF still THEN Stages - 1 ELSE -1
    /\ bits = InitialBits

(***************************************************************************)
(* Properties.                                                             *)
(***************************************************************************)
\* Type correctness of the landing page.
LandingTypeOK ==
    /\ act \in -1 .. Acts - 1 /\ story \in -1 .. StoryActs - 1
    /\ rail \in -1 .. Stages - 1
    /\ marks \in [Node -> SUBSET {"hit", "immune", "blocked"}]
    /\ wires \in [Wires -> SUBSET {"active", "immune"}]
    /\ timers \subseteq Schedule /\ bits.slide \in 0 .. Slides - 1

\* The mesh on screen is the one of the act scrolled to: a wave left behind
\* colours nothing later, in the gossip act exactly the peers whose timers
\* are still pending are untouched, an edge is immune when the peer that
\* heard over it is, and the twin's peer is blocked and nothing else
\* (applyAct in animations.js).
MeshFollowsScroll ==
    LET waiting == {t.to : t \in {u \in timers : u.kind = "immune"}}
    IN  /\ act \in {-1, 0, 1} => timers = {} /\ marks = Hit /\ wires = Dark
        /\ act = 2 => marks = [n \in Node |-> IF n = user1 THEN {"hit"}
                                 ELSE IF n \in waiting THEN {}
                                 ELSE IF n \in Reachable \/ still THEN {"immune"}
                                 ELSE {}]
        /\ act = 2 /\ ~still =>
              {e \in Wires : "immune" \in wires[e]} =
              {Wire(Heard[n], n) : n \in {m \in Node : "immune" \in marks[m]}}
        /\ act = 3 => /\ timers = {} /\ wires = Dark
                      /\ marks = [AllImmune EXCEPT ![user2] = {"blocked"}]
                      /\ site = user2
        /\ \A n \in Node : Cardinality(marks[n]) <= 1

=============================================================================
