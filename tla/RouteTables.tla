---------------------------- MODULE RouteTables ----------------------------
(***************************************************************************)
(* The routing tables of router parking (RouteTbl).  For every router that *)
(* is on there is a search of shortest paths over the routers that are on, *)
(* which gives its regular table, and one over the tree that a breadth     *)
(* first search from the fabric manager leaves, which gives its escape     *)
(* table.  A step of this module is a turn of the loop of _CalDist or      *)
(* _CalUpDownDist.                                                         *)
(***************************************************************************)
EXTENDS Parking, Sequences

VARIABLES
  search,  \* the search under way: _src, the matrix, _visited, _dist, _pred
  table,   \* _rt_tbl of the routers that have theirs
  escape   \* _esc_rt_tbl

tables == <<search, table, escape>>

Far     == K * K    \* numeric_limits<int>::max(): longer than any path
Nowhere == "none"   \* a predecessor of -1
Arrived == 4        \* ARRIVED; the directions are the ports of Mesh

(* Bug: the states of the routers are not looked at. *)
Bug_MeshLinks == {l \in Router \X Router : Adjacent(l[1], l[2])}

(* _adj_mtx *)
MeshLinks == {l \in on \X on : Adjacent(l[1], l[2])}

(* What a loop makes of s in n turns, if T is what a turn makes of it. *)
Turns(T, s, n) ==
  LET turn[i \in Nat] == IF i = 0 THEN s ELSE T[turn[i - 1]] IN turn[n]

InOrder(S) ==
  CHOOSE q \in [1 .. Cardinality(S) -> S] :
    \A i, j \in 1 .. Cardinality(S) : i < j => Id(q[i]) < Id(q[j])

(* A turn of _BFS: bfs_q, _visited and the links of _updown_adj_mtx.  The  *)
(* unvisited neighbours of the first router of the queue are appended.     *)
Explore(b) ==
  IF b.queue = <<>> THEN b
  ELSE LET r     == Head(b.queue)
           Fresh == {q \in on \ b.visited : Adjacent(r, q)}
       IN [queue   |-> Tail(b.queue) \o InOrder(Fresh),
           visited |-> b.visited \cup Fresh,
           links   |-> b.links \cup ({r} \X Fresh) \cup (Fresh \X {r})]

Walks == [queue : Seq(on), visited : SUBSET on, links : SUBSET (on \X on)]

FirstWalk == [queue |-> <<FabricManager>>, visited |-> {FabricManager}, links |-> {}]

(* The links of the tree, in both directions; every router comes into the  *)
(* queue once, and then the queue is empty.                                *)
Tree == Turns([b \in Walks |-> Explore(b)], FirstWalk, K * K).links

(* _Init *)
Start(src, links) ==
  [src     |-> src,
   links   |-> links,
   visited |-> {},
   dist    |-> [i \in Router |-> IF i = src THEN 0 ELSE Far],
   pred    |-> [i \in Router |-> Nowhere]]

Idle == [Start(FabricManager, {}) EXCEPT !.visited = Router]

TablesInit == search = Idle /\ table = <<>> /\ escape = <<>>

(* Bug: the escape tables are made from the matrix of all links. *)
Bug_EscapeLinks == MeshLinks

EscapeLinks == Tree

(* Bug: the regular tables are made from the tree. *)
Bug_RouteLinks == Tree

RouteLinks == MeshLinks

(* KNCube::_BuildNet makes the tables of one router after the other. *)
BuildRoute ==
  /\ stage = "done" /\ search = Idle
  /\ on \ DOMAIN table # {}
  /\ search' = Start(First(on \ DOMAIN table), RouteLinks)
  /\ UNCHANGED <<table, escape>>

(* Bug: the unvisited router with the least number is taken. *)
Bug_ClosestUnvisited == First(Router \ search.visited)

(* The unvisited router with the least distance, the last of several. *)
ClosestUnvisited ==
  CHOOSE c \in Router \ search.visited :
    \A i \in Router \ search.visited :
      \/ search.dist[c] < search.dist[i]
      \/ search.dist[c] = search.dist[i] /\ Id(i) <= Id(c)

Visit ==
  /\ search.visited # Router
  /\ LET c == ClosestUnvisited
         d == search.dist[c] + 1
         Improved == {i \in Router \ search.visited : <<c, i>> \in search.links /\ search.dist[i] > d}
     IN search' = [search EXCEPT
          !.visited = @ \cup {c},
          !.dist    = [i \in Router |-> IF i \in Improved THEN d ELSE @[i]],
          !.pred    = [i \in Router |-> IF i \in Improved THEN c ELSE @[i]]]
  /\ UNCHANGED <<table, escape>>

Direction(r, s) ==
  CASE Id(s) - Id(r) = 1  -> East
    [] Id(s) - Id(r) = -1 -> West
    [] Id(s) - Id(r) = K  -> South
    [] OTHER              -> North

(* The predecessors are followed back from i to the first hop. *)
Back == [i \in Router |-> IF search.pred[i] = search.src THEN i ELSE search.pred[i]]

FirstHops ==
  [i \in on |-> IF i = search.src THEN Arrived
                ELSE Direction(search.src, Turns(Back, i, K * K))]

Searched == search # Idle /\ search.visited = Router

With(t, r, v) == [q \in DOMAIN t \cup {r} |-> IF q = r THEN v ELSE t[q]]

(* The regular table is complete; BuildEscRoute begins. *)
BuildEscRoute ==
  /\ Searched /\ search.src \notin DOMAIN table
  /\ table' = With(table, search.src, FirstHops)
  /\ search' = Start(search.src, EscapeLinks)
  /\ UNCHANGED escape

SetTables ==
  /\ Searched /\ search.src \in DOMAIN table
  /\ escape' = With(escape, search.src, FirstHops)
  /\ search' = Idle
  /\ UNCHANGED table

TablesNext == BuildRoute \/ Visit \/ BuildEscRoute \/ SetTables

TablesDone == stage = "done" /\ DOMAIN escape = on

-----------------------------------------------------------------------------
(* Properties.                                                             *)

(* The routers that at most n hops over the links L lead to from r (a      *)
(* reference definition).                                                  *)
Grown(B, L)   == B \cup {s \in Router : \E q \in B : <<q, s>> \in L}
Ball(r, L, n) == Turns([B \in SUBSET Router |-> Grown(B, L)], {r}, n)

(* The length of a shortest path over the mesh, and the depth in it. *)
Hops(r, s) ==
  CHOOSE n \in 0 .. K * K :
    s \in Ball(r, MeshLinks, n) /\ (n > 0 => s \notin Ball(r, MeshLinks, n - 1))

Depth(r) == Hops(FabricManager, r)

(* After every turn, the distances of the visited routers that are on are  *)
(* final, and their predecessors lead back to the source: BuildRoute       *)
(* follows them without a check.                                           *)
VisitedIsFinal ==
  search # Idle =>
    \A i \in (search.visited \cap on) \ {search.src} :
      LET d == search.dist[i] IN
        /\ i \in Ball(search.src, search.links, d)
        /\ i \notin Ball(search.src, search.links, d - 1)
        /\ search.pred[i] \in on /\ search.dist[search.pred[i]] = d - 1
=============================================================================
