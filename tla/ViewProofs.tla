----------------------------- MODULE ViewProofs -----------------------------
(* What the views compute, for all data: a table of verdicts keeps its       *)
(* promise of anonymity, a page of the fleet is as full as it can be, and    *)
(* the graph of the mesh shows every node and every pair once.               *)
EXTENDS Privacy, ConsoleScreen, MeshGraph, LiveData, FiniteSetTheorems,
        FunctionTheorems, SequenceTheorems, WellFoundedInduction, TLAPS

(***************************************************************************)
(* The anonymity layer (privacy.js).                                       *)
(***************************************************************************)

\* A clock's window starts at a multiple of its width (bucketTime).
LEMMA WindowOfWindow ==
    ASSUME NEW q \in Nat
    PROVE  (q * Bucket) \div Bucket = q
<1>1. Bucket \in Nat /\ Bucket > 0
  BY PrivacyAssumption
<1> QED
  BY <1>1, Z3

\* Collapsing a time that is already collapsed changes nothing (bucketTime).
LEMMA BucketTwice ==
    ASSUME NEW clock, clock \in Nat \/ clock = NoTime
    PROVE  BucketTime(BucketTime(clock)) = BucketTime(clock)
<1>1. CASE clock = NoTime
  BY <1>1 DEF BucketTime
<1>2. CASE clock # NoTime
  <2>1. clock \div Bucket \in Nat
    BY <1>2, PrivacyAssumption
  <2>2. ((clock \div Bucket) * Bucket) \div Bucket = clock \div Bucket
    BY <2>1, WindowOfWindow
  <2> QED
    BY <1>2, <2>2 DEF BucketTime
<1> QED
  BY <1>1, <1>2

\* Whatever rows of a feed a view shows, and whatever the feed holds, each
\* pseudonym on screen stands for one of K_ANON rows of the feed, and no row
\* shows a time finer than a window (computeRareBuckets and privatize; the
\* attacks view filters and searches what they return).
THEOREM PseudonymsAlwaysHide ==
    ASSUME NEW Seat, NEW Modality, NEW Rest, NEW Time, NEW day,
           \A t \in Time : t \in Nat \/ t = NoTime,
           NEW rows \in Seq([time : Time, agent : Seat, mod : Modality,
                             verdict : Rest, tag : Rest]),
           NEW shown \in SUBSET DOMAIN PrivateTable(rows, day)
    PROVE  HidesAmong(Restrict(PrivateTable(rows, day), shown), PrivateTable(rows, day))
<1> DEFINE Bucketed == [i \in DOMAIN rows |->
                          [rows[i] EXCEPT !.time = BucketTime(rows[i].time)]]
           Table == PrivateTable(rows, day)
           Like(i) == {j \in DOMAIN rows : Key(Bucketed[j]) = Key(Bucketed[i])}
<1>1. \A i \in DOMAIN rows : rows[i] \in [time : Time, agent : Seat, mod : Modality,
                                         verdict : Rest, tag : Rest]
  <2>1. ASSUME NEW S, rows \in Seq(S)
        PROVE  \A i \in DOMAIN rows : rows[i] \in S
    BY <2>1
  <2> QED
    BY <2>1
<1>2. \A i \in DOMAIN rows :
        /\ Bucketed[i].time = BucketTime(rows[i].time)
        /\ Bucketed[i].mod = rows[i].mod
        /\ Bucketed[i].agent = rows[i].agent
  BY <1>1
<1>3. DOMAIN Table = DOMAIN rows /\ DOMAIN Bucketed = DOMAIN rows
  BY DEF PrivateTable
<1>4. \A i \in DOMAIN rows :
        /\ Table[i].time = Bucketed[i].time
        /\ Table[i].mod = Bucketed[i].mod
        /\ Table[i].agent = IF Key(Bucketed[i]) \in RareBuckets(Bucketed) THEN Group
                            ELSE AnonAgentId(rows[i].agent, day)
  BY <1>1 DEF PrivateTable, Privatize
<1>5. \A i \in DOMAIN rows : Key(Table[i]) = Key(Bucketed[i])
  BY <1>4 DEF Key
<1> HIDE DEF Bucketed, Table
<1>6. ASSUME NEW i \in DOMAIN rows
      PROVE  Table[i].time = BucketTime(Table[i].time)
  <2>1. rows[i].time \in Nat \/ rows[i].time = NoTime
    BY <1>1
  <2> QED
    <3>1. Table[i].time = BucketTime(rows[i].time)
      BY <1>2, <1>4
    <3>2. BucketTime(BucketTime(rows[i].time)) = BucketTime(rows[i].time)
      BY <2>1, BucketTwice
    <3> QED
      BY <3>1, <3>2
<1>7. ASSUME NEW i \in DOMAIN rows, Table[i].agent # Group
      PROVE  Cardinality({j \in DOMAIN Table : Key(Table[j]) = Key(Table[i])}) >= K_ANON
  <2>1. {j \in DOMAIN Table : Key(Table[j]) = Key(Table[i])} = Like(i)
    BY <1>3, <1>5
  <2>2. Key(Bucketed[i]) \notin RareBuckets(Bucketed)
    BY <1>4, <1>7
  <2>3. ~(Cardinality(Like(i)) < K_ANON)
    BY <1>3, <2>2 DEF RareBuckets
  <2>4. Cardinality(Like(i)) \in Nat /\ K_ANON \in Nat
    <3>1. DOMAIN rows = 1 .. Len(rows) /\ Len(rows) \in Nat
      OBVIOUS
    <3>2. IsFiniteSet(DOMAIN rows)
      BY <3>1, FS_Interval
    <3> QED
      BY <3>2, FS_Subset, FS_CardinalityType, PrivacyAssumption
  <2> HIDE DEF Like
  <2>5. Cardinality(Like(i)) >= K_ANON
    <3>1. ASSUME NEW n \in Nat, NEW k \in Nat, ~(n < k)
          PROVE  n >= k
      BY <3>1
    <3> QED
      BY <2>3, <2>4, <3>1, Zenon
  <2> QED
    BY <2>1, <2>5, Zenon
<1>8. \A i \in shown : i \in DOMAIN rows
  BY <1>3 DEF Table
<1>9. /\ DOMAIN Restrict(Table, shown) = shown
      /\ \A i \in shown : Restrict(Table, shown)[i] = Table[i]
  BY DEF Restrict
<1>10. HidesAmong(Restrict(Table, shown), Table)
  BY <1>6, <1>7, <1>8, <1>9 DEF HidesAmong
<1> QED
  BY <1>10 DEF Table

\* What is known of a sequence: its positions and the set of its elements.
LEMMA Elements ==
    ASSUME NEW S, NEW s \in Seq(S)
    PROVE  /\ DOMAIN s = 1 .. Len(s) /\ Len(s) \in Nat
           /\ \A i \in DOMAIN s : s[i] \in S
  OBVIOUS

(***************************************************************************)
(* Ranks: how many elements of a finite set come before one of them, where   *)
(* R[x] holds what comes before x.                                           *)
(***************************************************************************)
Before(S, R, x) == {y \in S : y \in R[x]}
RankIn(S, R, x) == Cardinality(Before(S, R, x))

TotallyOrders(R, S) ==
    /\ \A x \in S : x \notin R[x]
    /\ \A x, y, z \in S : x \in R[y] /\ y \in R[z] => x \in R[z]
    /\ \A x, y \in S : x # y => x \in R[y] \/ y \in R[x]

\* What comes earlier has the smaller rank.
LEMMA RankGrows ==
    ASSUME NEW S, IsFiniteSet(S), NEW R, TotallyOrders(R, S),
           NEW x \in S, NEW y \in S, x \in R[y]
    PROVE  RankIn(S, R, x) < RankIn(S, R, y)
<1>1. Before(S, R, x) \subseteq Before(S, R, y)
  BY DEF Before, TotallyOrders
<1>2. x \in Before(S, R, y) /\ x \notin Before(S, R, x)
  BY DEF Before, TotallyOrders
<1>3. IsFiniteSet(Before(S, R, y))
  BY FS_Subset DEF Before
<1>4. /\ RankIn(S, R, x) \in Nat /\ RankIn(S, R, y) \in Nat
      /\ RankIn(S, R, x) <= RankIn(S, R, y)
      /\ RankIn(S, R, x) # RankIn(S, R, y)
  BY <1>1, <1>2, <1>3, FS_Subset, FS_CardinalityType DEF RankIn
<1> QED
  BY <1>4

\* The ranks of a finite set in a total order are 0, 1, 2 ... without a gap.
LEMMA RanksFill ==
    ASSUME NEW S, IsFiniteSet(S), NEW R, TotallyOrders(R, S)
    PROVE  /\ \A x \in S : RankIn(S, R, x) \in 0 .. Cardinality(S) - 1
           /\ \A x, y \in S : RankIn(S, R, x) = RankIn(S, R, y) => x = y
           /\ \A k \in 0 .. Cardinality(S) - 1 : \E x \in S : RankIn(S, R, x) = k
<1> DEFINE rank == [x \in S |-> RankIn(S, R, x)]
           n == Cardinality(S)
<1>1. n \in Nat
  BY FS_CardinalityType
<1>2. ASSUME NEW x \in S
      PROVE  RankIn(S, R, x) \in 0 .. n - 1
  <2>1. Before(S, R, x) \in SUBSET S /\ x \notin Before(S, R, x)
    BY DEF Before, TotallyOrders
  <2>2. /\ Cardinality(Before(S, R, x)) <= n
        /\ Cardinality(Before(S, R, x)) # n
        /\ Cardinality(Before(S, R, x)) \in Nat
    BY <2>1, FS_Subset, FS_CardinalityType
  <2> QED
    BY <1>1, <2>2 DEF RankIn
<1>3. ASSUME NEW x \in S, NEW y \in S, RankIn(S, R, x) = RankIn(S, R, y)
      PROVE  x = y
  <2>1. x \notin R[y] /\ y \notin R[x]
    <3>1. RankIn(S, R, x) \in Nat /\ RankIn(S, R, y) \in Nat
      BY <1>2
    <3> QED
      BY <1>3, <3>1, RankGrows
  <2> QED
    BY <2>1 DEF TotallyOrders
<1>4. rank \in [S -> 0 .. n - 1]
  BY <1>2
<1>5. rank \in Injection(S, 0 .. n - 1)
  <2>1. \A x, y \in S : rank[x] = rank[y] => x = y
    BY <1>3
  <2> HIDE DEF rank, n
  <2> QED
    BY <1>4, <2>1, Fun_IsInj
<1>6. IsFiniteSet(0 .. n - 1) /\ Cardinality(0 .. n - 1) = n
  BY <1>1, FS_Interval
<1>7. rank \in Surjection(S, 0 .. n - 1)
  <2> HIDE DEF rank
  <2> QED
    BY <1>5, <1>6, FS_Injection
<1>8. \A k \in 0 .. n - 1 : \E x \in S : rank[x] = k
  <2> HIDE DEF rank, n
  <2> QED
    BY <1>7, Fun_SurjectionProperties
<1> QED
  BY <1>2, <1>3, <1>8

(***************************************************************************)
(* The pages of the fleet (agents.js).                                     *)
(***************************************************************************)
AgentsView == [q : Terms, statusFilter : {"all", "healthy", "warning"},
               sortBy : {"id", "blocked"}, sortDir : {"asc", "desc"}, page : Nat]

\* The last page begins before the last of n rows, for any size of a page.
LEMMA PageBegins ==
    ASSUME NEW n \in Nat \ {0}, NEW p \in Nat,
           p < (n + PageSize - 1) \div PageSize
    PROVE  p * PageSize \in 0 .. n - 1
<1>1. PageSize \in Nat /\ PageSize > 0
  BY ScreenAssumption
<1> DEFINE m == n + PageSize - 1
           d == m \div PageSize
<1>2. d \in Nat /\ d * PageSize <= m
  BY <1>1, Z3
<1>3. (p + 1) * PageSize <= d * PageSize
  <2>1. p + 1 <= d /\ p + 1 \in Nat
    BY <1>2
  <2> HIDE DEF d
  <2> QED
    BY <1>1, <1>2, <2>1, Z3
<1>4. (p + 1) * PageSize = p * PageSize + PageSize /\ p * PageSize \in Nat
  BY <1>1, Z3
<1> HIDE DEF d
<1> QED
  BY <1>1, <1>2, <1>3, <1>4

\* A page's width: from p to p + 1 times the size there are as many places.
LEMMA PageWidth ==
    ASSUME NEW p \in Nat
    PROVE  /\ p * PageSize \in Int /\ (p + 1) * PageSize - 1 \in Int
           /\ p * PageSize \in p * PageSize .. (p + 1) * PageSize - 1
           /\ Cardinality(p * PageSize .. (p + 1) * PageSize - 1) = PageSize
<1>1. PageSize \in Nat /\ PageSize > 0
  BY ScreenAssumption
<1>2. (p + 1) * PageSize = p * PageSize + PageSize /\ p * PageSize \in Nat
  BY <1>1, Z3
<1> QED
  BY <1>1, <1>2, FS_Interval

\* The order the rows of a view are sorted in, equal keys by position.
Sorts(a, j, i) ==
    \/ Roster[j][a.sortBy] = Roster[i][a.sortBy] /\ j < i
    \/ a.sortDir = "asc" /\ Roster[j][a.sortBy] < Roster[i][a.sortBy]
    \/ a.sortDir = "desc" /\ Roster[j][a.sortBy] > Roster[i][a.sortBy]
SortOrder(a) == [i \in DOMAIN Roster |-> {j \in DOMAIN Roster : Sorts(a, j, i)}]

LEMMA SortsTotally ==
    ASSUME NEW a \in AgentsView
    PROVE  /\ IsFiniteSet(Matching(a))
           /\ TotallyOrders(SortOrder(a), Matching(a))
           /\ \A i \in Matching(a) : SortRank(a, i) = RankIn(Matching(a), SortOrder(a), i)
<1> DEFINE D == DOMAIN Roster
<1>1. /\ D = 1 .. Len(Roster) /\ Len(Roster) \in Nat
      /\ \A i \in D : Roster[i] \in [id : Int, status : STRING, tag : STRING, blocked : Int]
  BY ScreenAssumption, Elements
<1>2. IsFiniteSet(D)
  <2> HIDE DEF D
  <2> QED
    BY <1>1, FS_Interval
<1>3. Matching(a) \in SUBSET D /\ IsFiniteSet(Matching(a))
  BY <1>2, FS_Subset DEF Matching
<1>4. a.sortDir \in {"asc", "desc"} /\ a.sortBy \in {"id", "blocked"}
  BY DEF AgentsView
<1>5. \A i \in D : i \in Nat /\ Roster[i][a.sortBy] \in Int
  BY <1>1, <1>4
<1>6. \A i, j \in D : j \in SortOrder(a)[i] <=> Sorts(a, j, i)
  BY DEF SortOrder
<1>7. TotallyOrders(SortOrder(a), Matching(a))
  <2> HIDE DEF D
  <2>1. \A x \in Matching(a) : ~Sorts(a, x, x)
    BY <1>3, <1>5 DEF Sorts
  <2>2. \A x, y, z \in Matching(a) : Sorts(a, x, y) /\ Sorts(a, y, z) => Sorts(a, x, z)
    BY <1>3, <1>4, <1>5 DEF Sorts
  <2>3. \A x, y \in Matching(a) : x # y => Sorts(a, x, y) \/ Sorts(a, y, x)
    BY <1>3, <1>4, <1>5 DEF Sorts
  <2> QED
    BY <1>3, <1>6, <2>1, <2>2, <2>3 DEF TotallyOrders
<1>8. ASSUME NEW i \in Matching(a)
      PROVE  SortRank(a, i) = RankIn(Matching(a), SortOrder(a), i)
  <2>1. {j \in Matching(a) : Sorts(a, j, i)} = Before(Matching(a), SortOrder(a), i)
    BY <1>3, <1>6 DEF Before
  <2>2. SortRank(a, i) = Cardinality({j \in Matching(a) : Sorts(a, j, i)})
    BY DEF SortRank, Sorts
  <2> QED
    BY <2>1, <2>2 DEF RankIn
<1> QED
  BY <1>3, <1>7, <1>8

\* A page never holds more rows than its size, and holds one when the pager lets
\* the operator on it and anything matches, for every fleet, filter and order.
LEMMA PagesAreFull ==
    ASSUME NEW a \in AgentsView, a.page < PageCount(a)
    PROVE  /\ Matching(a) # {} => PageRows(a) # {}
           /\ Cardinality(PageRows(a)) <= PageSize
<1> DEFINE R == SortOrder(a)
           M == Matching(a)
           p == a.page
           places == p * PageSize .. (p + 1) * PageSize - 1
<1>1. IsFiniteSet(M) /\ TotallyOrders(R, M) /\ \A i \in M : SortRank(a, i) = RankIn(M, R, i)
  BY SortsTotally
<1>2. /\ \A x \in M : RankIn(M, R, x) \in 0 .. Cardinality(M) - 1
      /\ \A x, y \in M : RankIn(M, R, x) = RankIn(M, R, y) => x = y
      /\ \A k \in 0 .. Cardinality(M) - 1 : \E x \in M : RankIn(M, R, x) = k
  <2> HIDE DEF R, M
  <2> QED
    BY <1>1, RanksFill
<1>3. p \in Nat /\ Cardinality(M) \in Nat
  BY <1>1, FS_CardinalityType DEF AgentsView
<1>4. PageRows(a) = {i \in M : SortRank(a, i) \in places}
  BY DEF PageRows
<1>5. ASSUME M # {} PROVE PageRows(a) # {}
  <2>1. Cardinality(M) \in Nat \ {0}
    BY <1>1, <1>3, <1>5, FS_EmptySet
  <2>2. p < (Cardinality(M) + PageSize - 1) \div PageSize
    <3>1. (Cardinality(M) + PageSize - 1) \div PageSize # 0
      <4>1. PageSize \in Nat /\ PageSize > 0
        BY ScreenAssumption
      <4> HIDE DEF M
      <4> QED
        BY <2>1, <4>1, Z3
    <3> QED
      BY <3>1 DEF PageCount
  <2>3. p * PageSize \in 0 .. Cardinality(M) - 1
    <3> HIDE DEF p, M
    <3> QED
      BY <1>3, <2>1, <2>2, PageBegins
  <2>4. PICK x \in M : RankIn(M, R, x) = p * PageSize
    BY <1>2, <2>3
  <2>5. p * PageSize \in places
    BY <1>3, PageWidth
  <2> QED
    BY <1>1, <1>4, <2>4, <2>5
<1>6. Cardinality(PageRows(a)) <= PageSize
  <2> DEFINE f == [i \in PageRows(a) |-> SortRank(a, i)]
  <2>1. f \in [PageRows(a) -> places]
    BY <1>4
  <2>2. \A x, y \in PageRows(a) : f[x] = f[y] => x = y
    BY <1>1, <1>2, <1>4
  <2>3. f \in Injection(PageRows(a), places)
    <3> HIDE DEF f, places
    <3> QED
      BY <2>1, <2>2, Fun_IsInj
  <2>4. Cardinality(places) = PageSize
    BY <1>3, PageWidth
  <2>5. p * PageSize \in Int /\ (p + 1) * PageSize - 1 \in Int
    <3> HIDE DEF p
    <3> QED
      BY <1>3, PageWidth
  <2>6. IsFiniteSet(places)
    <3> HIDE DEF p
    <3> QED
      BY <2>5, FS_Interval
  <2> HIDE DEF f, places
  <2> QED
    BY <2>3, <2>4, <2>6, FS_Injection
<1> QED
  BY <1>5, <1>6

(***************************************************************************)
(* The graph of the mesh (registry.js).                                      *)
(***************************************************************************)

\* Any non-empty set of positions has a first one.
LEMMA FirstOf ==
    ASSUME NEW S \in SUBSET Nat, S # {}
    PROVE  \E m \in S : \A j \in S : m <= j
<1>1. PICK m \in S : \A j \in S : ~ (<<j, m>> \in OpToRel(<, Nat))
  BY WFMin, NatLessThanWellFounded
<1>2. \A j \in S : ~ (j < m)
  BY <1>1 DEF OpToRel
<1> QED
  BY <1>2

\* The order of an arc's nodes is that of their ids.
IdOrder(t) == [i \in DOMAIN t.nodes |->
                 {j \in DOMAIN t.nodes : t.nodes[j].id < t.nodes[i].id}]

LEMMA ArcRanks ==
    ASSUME NEW t, IsTopology(t), NEW arc \in SUBSET DOMAIN t.nodes,
           NEW i \in arc, NEW j \in arc, Rank(t, i, arc) = Rank(t, j, arc)
    PROVE  i = j
<1> DEFINE D == DOMAIN t.nodes
<1>1. /\ D = 1 .. Len(t.nodes) /\ Len(t.nodes) \in Nat
      /\ \A k \in D : t.nodes[k] \in [id : Int, role : STRING, group : STRING]
  BY Elements DEF IsTopology
<1>2. IsFiniteSet(arc)
  <2>1. IsFiniteSet(D)
    <3> HIDE DEF D
    <3> QED
      BY <1>1, FS_Interval
  <2> QED
    BY <2>1, FS_Subset
<1>3. \A k \in D : t.nodes[k].id \in Int
  BY <1>1
<1>4. \A k, l \in arc : k \in IdOrder(t)[l] <=> t.nodes[k].id < t.nodes[l].id
  BY DEF IdOrder
<1>5. TotallyOrders(IdOrder(t), arc)
  <2>1. \A k, l \in arc : k # l => t.nodes[k].id # t.nodes[l].id
    BY DEF IsTopology
  <2> HIDE DEF D
  <2> QED
    BY <1>3, <1>4, <2>1 DEF TotallyOrders, D
<1>6. \A k \in arc : Rank(t, k, arc) = RankIn(arc, IdOrder(t), k)
  <2> SUFFICES ASSUME NEW k \in arc
               PROVE  Rank(t, k, arc) = RankIn(arc, IdOrder(t), k)
    OBVIOUS
  <2>1. {l \in arc : t.nodes[l].id < t.nodes[k].id} = Before(arc, IdOrder(t), k)
    BY <1>4 DEF Before
  <2> QED
    BY <2>1 DEF Rank, RankIn
<1> QED
  BY <1>2, <1>5, <1>6, RanksFill

\* Two validators take different places on the mid-line.
LEMMA MidLinesDiffer ==
    ASSUME NEW t, IsTopology(t), Cardinality(Validators(t)) <= 2,
           NEW i \in Validators(t), NEW j \in Validators(t), i # j
    PROVE  MidLine(t, i) # MidLine(t, j)
<1>1. DOMAIN t.nodes = 1 .. Len(t.nodes) /\ Len(t.nodes) \in Nat
  BY Elements DEF IsTopology
<1>2. Validators(t) \subseteq DOMAIN t.nodes /\ IsFiniteSet(Validators(t))
  <2>1. IsFiniteSet(1 .. Len(t.nodes))
    BY <1>1, FS_Interval
  <2>2. Validators(t) \subseteq DOMAIN t.nodes
    BY DEF Validators
  <2> QED
    BY <1>1, <2>1, <2>2, FS_Subset
<1>3. Validators(t) = {i, j}
  <2>1. IsFiniteSet({i, j}) /\ Cardinality({i, j}) = 2
    <3>1. IsFiniteSet({i}) /\ Cardinality({i}) = 1
      BY FS_Singleton
    <3>2. {i} \cup {j} = {i, j}
      OBVIOUS
    <3> QED
      BY <3>1, <3>2, FS_AddElement
  <2>2. Cardinality(Validators(t)) \in Nat
    BY <1>2, FS_CardinalityType
  <2>3. Cardinality({i, j}) = Cardinality(Validators(t))
    <3>1. Cardinality({i, j}) <= Cardinality(Validators(t))
      BY <1>2, FS_Subset
    <3> QED
      BY <2>1, <2>2, <3>1
  <2> QED
    BY <1>2, <2>3, FS_Subset
<1>4. i \in Nat /\ j \in Nat
  BY <1>1, <1>2
<1> QED
  BY <1>3, <1>4 DEF MidLine

\* With at most two validators no two nodes are drawn in one place, for every
\* mesh whose nodes have names of their own (layoutNodes).
LEMMA NodesAreApart ==
    ASSUME NEW t, IsTopology(t)
    PROVE  NodesApart(t)
<1> SUFFICES ASSUME Cardinality(Validators(t)) <= 2,
                    NEW i \in DOMAIN t.nodes, NEW j \in DOMAIN t.nodes, i # j
             PROVE  Place(t, i) # Place(t, j)
  BY DEF NodesApart
<1>1. /\ Left(t) \subseteq Peers(t) /\ Right(t) \subseteq Peers(t)
      /\ Left(t) \cap Right(t) = {}
  BY DEF Left, Right, Half, Grouped
<1>2. Peers(t) \subseteq DOMAIN t.nodes /\ Peers(t) \cap Validators(t) = {}
  BY DEF Peers
<1>3. \A k \in DOMAIN t.nodes :
        /\ k \in Validators(t) => Place(t, k) = <<"mid", MidLine(t, k)>>
        /\ k \in Left(t) => Place(t, k) = <<"left", Rank(t, k, Left(t))>>
        /\ k \in Right(t) => Place(t, k) = <<"right", Rank(t, k, Right(t))>>
        /\ k \notin Validators(t) \cup Left(t) \cup Right(t) => Place(t, k) = <<"ring", k>>
  BY <1>1, <1>2 DEF Place
<1>4. ASSUME i \in Validators(t), j \in Validators(t)
      PROVE  MidLine(t, i) # MidLine(t, j)
  BY <1>4, MidLinesDiffer
<1>5. ASSUME i \in Left(t), j \in Left(t)
      PROVE  Rank(t, i, Left(t)) # Rank(t, j, Left(t))
  BY <1>1, <1>2, <1>5, ArcRanks
<1>6. ASSUME i \in Right(t), j \in Right(t)
      PROVE  Rank(t, i, Right(t)) # Rank(t, j, Right(t))
  BY <1>1, <1>2, <1>6, ArcRanks
<1> QED
  BY <1>3, <1>4, <1>5, <1>6

\* Edges with the same ends are drawn once.
LEMMA DrawnOnce ==
    ASSUME NEW t, IsTopology(t),
           NEW i \in DrawnEdges(t), NEW j \in DrawnEdges(t), Ends(t, i) = Ends(t, j)
    PROVE  i = j
<1>1. i \in Nat /\ j \in Nat /\ ~(i < j) /\ ~(j < i)
  BY DEF DrawnEdges, IsTopology
<1> QED
  BY <1>1

\* Every pair of known nodes that an edge joins is drawn, and drawn once
\* (the edge list of layoutNodes).
LEMMA PairsAreDrawnOnce ==
    ASSUME NEW t, IsTopology(t)
    PROVE  EachPairOnce(t)
<1> DEFINE pairs == {p \in SUBSET Ids(t) : \E i \in DOMAIN t.edges : p = Ends(t, i)}
           f == [i \in DrawnEdges(t) |-> Ends(t, i)]
<1>1. ASSUME NEW p \in pairs
      PROVE  \E i \in DrawnEdges(t) : Ends(t, i) = p
  <2> DEFINE S == {i \in DOMAIN t.edges : Ends(t, i) = p}
  <2>1. S \in SUBSET Nat /\ S # {}
    BY DEF IsTopology
  <2>2. PICK m \in S : \A j \in S : m <= j
    <3> HIDE DEF S
    <3> QED
      BY <2>1, FirstOf
  <2>3. \A j \in DOMAIN t.edges : j < m => Ends(t, j) # Ends(t, m)
    BY <2>1, <2>2 DEF IsTopology
  <2> QED
    BY <2>3 DEF DrawnEdges
<1>2. \A i \in DrawnEdges(t) : Ends(t, i) \in pairs
  BY DEF DrawnEdges
<1>3. f \in Bijection(DrawnEdges(t), pairs)
  <2>1. f \in [DrawnEdges(t) -> pairs]
    BY <1>2
  <2>2. \A i, j \in DrawnEdges(t) : f[i] = f[j] => i = j
    BY DrawnOnce
  <2>3. \A p \in pairs : \E i \in DrawnEdges(t) : f[i] = p
    BY <1>1
  <2> HIDE DEF f, pairs
  <2>4. f \in Injection(DrawnEdges(t), pairs)
    BY <2>1, <2>2, Fun_IsInj
  <2>5. f \in Surjection(DrawnEdges(t), pairs)
    BY <2>1, <2>3, Fun_IsSurj
  <2> QED
    BY <2>4, <2>5 DEF Bijection
<1>4. IsFiniteSet(DrawnEdges(t))
  <2>1. DrawnEdges(t) \subseteq DOMAIN t.edges
    BY DEF DrawnEdges
  <2> QED
    BY <2>1, FS_Subset DEF IsTopology
<1>5. Cardinality(DrawnEdges(t)) = Cardinality(pairs)
  <2> HIDE DEF f, pairs
  <2> QED
    BY <1>3, <1>4, FS_Bijection DEF ExistsBijection
<1>6. {Ends(t, i) : i \in DrawnEdges(t)} = pairs
  <2> HIDE DEF pairs
  <2> QED
    BY <1>1, <1>2
<1> QED
  BY <1>5, <1>6 DEF EachPairOnce

\* At most one edge is animated, and it leaves this node; it is drawn when
\* nothing earlier joins its ends the other way (edgeFlow in registry.js).
LEMMA OneEdgeAnimates ==
    ASSUME NEW t, IsTopology(t)
    PROVE  AnimatedEdge(t)
<1> DEFINE animated == {i \in DrawnEdges(t) : Active(t, i)}
           first == CHOOSE i \in Outbound(t) : \A j \in Outbound(t) : i <= j
<1>1. DOMAIN t.edges \subseteq Nat /\ Outbound(t) \subseteq DOMAIN t.edges
  BY DEF Outbound, IsTopology
<1>2. ASSUME Outbound(t) # {}
      PROVE  first \in Outbound(t) /\ \A j \in Outbound(t) : first <= j
  <2>1. \E i \in Outbound(t) : \A j \in Outbound(t) : i <= j
    BY <1>1, <1>2, FirstOf
  <2> QED
    BY <2>1
<1>3. \A i \in animated : /\ i \in DOMAIN t.edges /\ Outbound(t) # {}
                          /\ t.edges[i] = t.edges[first]
  BY DEF Active, SelfOutbound, DrawnEdges
<1> HIDE DEF first
<1>4. \A i \in animated : Ends(t, i) = Ends(t, first)
  BY <1>3 DEF Ends
<1>5. \A i, j \in animated : i = j
  BY <1>4, DrawnOnce
<1>6. Cardinality(animated) <= 1
  <2> HIDE DEF animated
  <2>1. CASE animated = {}
    BY <2>1, FS_EmptySet
  <2>2. CASE animated # {}
    <3>1. PICK x \in animated : TRUE
      BY <2>2
    <3>2. animated = {x}
      BY <1>5, <3>1
    <3> QED
      BY <3>2, FS_Singleton
  <2> QED
    BY <2>1, <2>2
<1>7. \A i \in animated : t.self \in Ends(t, i)
  <2> HIDE DEF animated
  <2> QED
    BY <1>2, <1>3, <1>4 DEF Outbound, Ends
<1>8. ASSUME NEW k \in Outbound(t),
             {t.self, t.edges[k].to} \subseteq Ids(t),
             \A j \in Outbound(t) : k <= j,
             \A j \in DOMAIN t.edges :
               j < k => t.edges[j] # [from |-> t.edges[k].to, to |-> t.self]
      PROVE  animated # {}
  <2>1. k = first
    <3>1. first \in Outbound(t) /\ first <= k /\ k <= first
      BY <1>2, <1>8
    <3> QED
      BY <1>1, <3>1
  <2>2. Active(t, k)
    BY <2>1 DEF Active, SelfOutbound, first
  <2>3. t.edges[k].from = t.self /\ k \in DOMAIN t.edges
    BY DEF Outbound
  <2>4. ASSUME NEW j \in DOMAIN t.edges, j < k, Ends(t, j) = Ends(t, k)
        PROVE  FALSE
    <3>1. t.edges[j].from # t.self
      <4>1. j \notin Outbound(t)
        BY <1>1, <1>8, <2>4
      <4> QED
        BY <4>1 DEF Outbound
    <3>2. t.edges[j].from = t.edges[k].to /\ t.edges[j].to = t.self
      BY <2>3, <2>4, <3>1 DEF Ends
    <3>3. t.edges[j] = [from |-> t.edges[j].from, to |-> t.edges[j].to]
      BY DEF IsTopology
    <3> QED
      BY <1>8, <2>4, <3>2, <3>3
  <2>5. k \in DrawnEdges(t)
    BY <1>8, <2>3, <2>4 DEF DrawnEdges, Ends
  <2> QED
    BY <2>2, <2>5
<1> QED
  BY <1>6, <1>7, <1>8 DEF AnimatedEdge

\* Dropping the edges without both ends leaves a topology (resolveTopology).
LEMMA WholeEdgesStay ==
    ASSUME NEW t, IsTopology(t), t = [self |-> t.self, nodes |-> t.nodes, edges |-> t.edges],
           NEW S \in SUBSET DOMAIN t.edges
    PROVE  IsTopology([t EXCEPT !.edges = Restrict(@, S)])
<1> DEFINE u == [t EXCEPT !.edges = Restrict(@, S)]
<1>1. u.nodes = t.nodes /\ u.edges = [i \in S |-> t.edges[i]]
  BY DEF Restrict
<1>2. DOMAIN u.edges = S /\ \A i \in S : u.edges[i] = t.edges[i]
  BY <1>1
<1>3. S \subseteq Nat /\ IsFiniteSet(S)
  BY FS_Subset DEF IsTopology
<1> HIDE DEF u
<1> QED
  BY <1>1, <1>2, <1>3 DEF IsTopology, u

=============================================================================
