----------------------------- MODULE MeshGraph -----------------------------
(* The graph the registry draws of a mesh topology (layoutNodes in           *)
(* registry.js): where each node goes and which edges are drawn.  A topology *)
(* has a self id, a sequence of nodes with id, role and the group its id's   *)
(* prefix puts it in, and directed edges by position.  Ids are numbers: only *)
(* their order counts.                                                       *)
EXTENDS Integers, FiniteSets, Sequences

\* Every node has an id of its own; the mesh is configured by node name.
IsTopology(t) ==
    /\ t.nodes \in Seq([id : Int, role : STRING, group : STRING])
    /\ \A i, j \in DOMAIN t.nodes : t.nodes[i].id = t.nodes[j].id => i = j
    /\ DOMAIN t.edges \subseteq Nat /\ IsFiniteSet(DOMAIN t.edges)
    /\ \A i \in DOMAIN t.edges :
         t.edges[i] = [from |-> t.edges[i].from, to |-> t.edges[i].to]

Ids(t) == {t.nodes[i].id : i \in DOMAIN t.nodes}

(***************************************************************************)
(* Places: two arcs, the mid-line, and a ring for what is left.            *)
(***************************************************************************)
Validators(t) == {i \in DOMAIN t.nodes : t.nodes[i].role = "validator"}
Peers(t) == DOMAIN t.nodes \ Validators(t)
Grouped(t, g) == {i \in Peers(t) : t.nodes[i].group = g}

\* Without a single name of either group, the peers are split in halves.
Unnamed(t) == Grouped(t, "a") = {} /\ Grouped(t, "b") = {}
Half(t) ==
    {i \in Peers(t) : Cardinality({j \in Peers(t) : j < i})
                        < (Cardinality(Peers(t)) + 1) \div 2}
Left(t) == IF Unnamed(t) THEN Half(t) ELSE Grouped(t, "a")
Right(t) == IF Unnamed(t) THEN Peers(t) \ Half(t) ELSE Grouped(t, "b")

Rank(t, i, arc) == Cardinality({j \in arc : t.nodes[j].id < t.nodes[i].id})

MidLine(t, i) == IF Validators(t) = {i} THEN "centre"
                 ELSE IF \A j \in Validators(t) : i <= j THEN "top" ELSE "bottom"

Place(t, i) ==
    CASE i \in Validators(t) -> <<"mid", MidLine(t, i)>>
      [] i \in Left(t)       -> <<"left", Rank(t, i, Left(t))>>
      [] i \in Right(t)      -> <<"right", Rank(t, i, Right(t))>>
      [] OTHER               -> <<"ring", i>>

(***************************************************************************)
(* Edges: an undirected pair is drawn once, for its first directed edge.    *)
(***************************************************************************)
Outbound(t) == {i \in DOMAIN t.edges : t.edges[i].from = t.self}
SelfOutbound(t) == t.edges[CHOOSE i \in Outbound(t) :
                             \A j \in Outbound(t) : i <= j]
Active(t, i) == Outbound(t) # {} /\ t.edges[i] = SelfOutbound(t)

Ends(t, i) == {t.edges[i].from, t.edges[i].to}
DrawnEdges(t) ==
    {i \in DOMAIN t.edges : /\ Ends(t, i) \subseteq Ids(t)
                            /\ \A j \in DOMAIN t.edges : j < i => Ends(t, j) # Ends(t, i)}

NeighborsOf(t, id) == {m \in Ids(t) : \E i \in DrawnEdges(t) : Ends(t, i) = {id, m}}

(***************************************************************************)
(* What the drawing owes to the topology.                                  *)
(***************************************************************************)

\* Nodes are drawn apart while the mesh has at most two validators.
NodesApart(t) ==
    Cardinality(Validators(t)) <= 2 =>
        \A i, j \in DOMAIN t.nodes : i # j => Place(t, i) # Place(t, j)

\* Every pair of known nodes with an edge is drawn, and drawn once.
EachPairOnce(t) ==
    LET pairs == {p \in SUBSET Ids(t) : \E i \in DOMAIN t.edges : p = Ends(t, i)}
    IN  /\ {Ends(t, i) : i \in DrawnEdges(t)} = pairs
        /\ Cardinality(DrawnEdges(t)) = Cardinality(pairs)

\* The animated edge is one that leaves this node, and there is at most one;
\* there is one when this node's first edge goes to a known node whose own
\* edge back does not come earlier.
AnimatedEdge(t) ==
    LET animated == {i \in DrawnEdges(t) : Active(t, i)}
    IN  /\ Cardinality(animated) <= 1
        /\ \A i \in animated : t.self \in Ends(t, i)
        /\ \A k \in Outbound(t) :
             /\ {t.self, t.edges[k].to} \subseteq Ids(t)
             /\ \A j \in Outbound(t) : k <= j
             /\ \A j \in DOMAIN t.edges :
                  j < k => t.edges[j] # [from |-> t.edges[k].to, to |-> t.self]
             => animated # {}

=============================================================================
