---------------------------- MODULE FlovRouting ----------------------------
(***************************************************************************)
(* The fly-over routing functions (routefunc.cpp) and the way of one       *)
(* packet's head flit through a mesh whose routers switch off and on.      *)
(*                                                                         *)
(* The packet is routed by the router it is in, from what that router      *)
(* believes of its neighbours, and later moves along the route if the      *)
(* downstream router is on then, flying over the routers that are off.     *)
(* Between the two the neighbours may change: a packet whose VC request    *)
(* stays ungranted keeps its route, however old.  The lowest VC is the     *)
(* escape VC; the others are one class here.                               *)
(*                                                                         *)
(* Of power-gating the module keeps what modules Rflov and Flov establish: *)
(* a router goes off only when it holds no packet and none is on its way   *)
(* to it, and the routers around it see its state.                         *)
(***************************************************************************)
EXTENDS Mesh

CONSTANTS
  Functions,    \* the routing functions a run may be configured with
  Gate,         \* the routers that may be off at the start or switch
  MaxMisroute,  \* gMissRouteThreshold
  MaxChanges    \* bound: routers that start to drain or to wake up

ASSUME FlovRoutingAssumption ==
  /\ Functions \subseteq {"flov", "opt_rflov", "opt_flov", "adaptive_flov"}
  /\ Gate \subseteq Router \ BottomRow
  /\ {MaxMisroute, MaxChanges} \subseteq Nat

VARIABLES
  function, \* the routing function of the run
  power,    \* _power_state
  at,       \* the router whose buffer holds the packet
  dest,     \* f->dest
  inp,      \* the input port it came by, Local when injected here
  esc,      \* it is in the escape VC
  route,    \* the route set, empty before routing
  misroute, \* f->misroute_hops, up to MaxMisroute + 1
  changes   \* changes of power state started

packet == <<at, dest, inp, esc, misroute>>
vars   == <<function, power, packet, route, changes>>

PowerState == {"on", "draining", "off", "wakeup"}
Local      == 4

(* An element of a route set: an output port and the class of VCs.         *)
Choice == [port : Port, esc : BOOLEAN]

-----------------------------------------------------------------------------
(* What the router that holds the packet knows.                            *)

State(p)   == IF Boundary(at, p) THEN "off" ELSE power[Nbr(at, p)]
On(p)      == State(p) = "on"                \* GetNeighborPowerState
Aligned(r) == Row(r) = Row(dest) \/ Col(r) = Col(dest)

Ahead(r, p) ==
  {q \in Router :
     CASE p = East  -> Row(q) = Row(r) /\ Col(q) > Col(r)
       [] p = West  -> Row(q) = Row(r) /\ Col(q) < Col(r)
       [] p = South -> Col(q) = Col(r) /\ Row(q) > Row(r)
       [] p = North -> Col(q) = Col(r) /\ Row(q) < Row(r)}

(* The nearest router ahead that is in one of the given states.            *)
Nearest(r, p, states) ==
  {q \in Ahead(r, p) : /\ power[q] \in states
                       /\ \A s \in Ahead(r, p) : q \in Ahead(s, p) => power[s] \notin states}

(* _logical_neighbors: a router counts from the announcement that it is on *)
Logical(p) == Nearest(at, p, {"on", "draining"})

(* The buffer a flit sent through port p ends up in; none if the           *)
(* downstream router drains, wakes up or does not exist.                   *)
Landing(p) == {q \in Nearest(at, p, {"on", "draining", "wakeup"}) : power[q] = "on"}

-----------------------------------------------------------------------------
(* The routing functions.  old: the packet has waited here for more than   *)
(* 300 cycles.                                                             *)

XPort == IF Col(at) < Col(dest) THEN East ELSE West
YPort == IF Row(at) < Row(dest) THEN South ELSE North
XY    == IF Col(at) # Col(dest) THEN XPort ELSE YPort     \* dor_next_mesh
YX    == IF Row(at) # Row(dest) THEN YPort ELSE XPort

(* Bug: packets in the escape VC keep the port of the others. *)
Bug_flov_mesh(old) ==
  LET p == IF On(XY) THEN XY ELSE YX
  IN {[port |-> p, esc |-> esc \/ old \/ (~Aligned(at) /\ ~On(p))]}

(* Bug: the bottom row is not treated apart. *)
Bug_AboveBottom == TRUE

AboveBottom == Row(at) < K - 1

(* Bug: a packet in the escape VC goes South even in line with its         *)
(* destination.                                                            *)
Bug_flov_mesh_South(old) ==
  LET p == IF On(XY) THEN XY ELSE YX
      e == esc \/ old \/ (~Aligned(at) /\ ~On(p))
  IN {[port |-> IF e /\ AboveBottom THEN South ELSE p, esc |-> e]}

flov_mesh(old) ==
  LET p == IF On(XY) THEN XY ELSE YX
      e == esc \/ old \/ (~Aligned(at) /\ ~On(p))
  IN {[port |-> IF e /\ AboveBottom /\ ~Aligned(at) THEN South ELSE p, esc |-> e]}

(* The two optimised functions differ in the port around a neighbour in    *)
(* the X dimension that is not on.                                         *)
Around(e) ==
  CASE function = "opt_rflov" ->
         (IF Col(dest) > Col(at) + 1 THEN East
          ELSE IF Col(dest) < Col(at) - 1 THEN West
          ELSE IF Row(dest) < Row(at) - 1 /\ ~e THEN North ELSE South)
    [] function = "opt_flov" ->
         (IF \E q \in Logical(East) : Col(dest) >= Col(q) THEN East
          ELSE IF \E q \in Logical(West) : Col(dest) <= Col(q) THEN West
          ELSE IF (\E q \in Logical(North) : Row(dest) <= Row(q)) /\ ~e THEN North ELSE South)

(* Bug: a packet in the escape VC goes South even in line with its         *)
(* destination.                                                            *)
Bug_opt_mesh_South(old) ==
  LET e == esc \/ old
      p == IF ~Aligned(at) /\ ~On(XY) THEN Around(e) ELSE XY
  IN {[port |-> IF e /\ AboveBottom /\ p = North THEN South ELSE p, esc |-> e]}

opt_mesh(old) ==
  LET e0     == esc \/ old
      around == ~Aligned(at) /\ ~On(XY)
      p0     == IF around THEN Around(e0) ELSE XY
      e      == e0 \/ (around /\ inp = South /\ p0 = South)
      p      == IF e /\ AboveBottom /\ ~Aligned(at) /\ p0 = North THEN South ELSE p0
  IN {[port |-> p, esc |-> e]}

(* Bug: the dimensions are taken in the other order. *)
Bug_EscapePort == YX

EscapePort == IF AboveBottom /\ ~Aligned(at) THEN South ELSE XY

(* The X port is taken to be available over a neighbour that is off if the *)
(* packet lands at or before its column, the Y port likewise to the North. *)
XAvailable ==
  \/ On(XY)
  \/ State(XY) = "off" /\ \/ \E q \in Logical(East) : Col(dest) >= Col(q)
                          \/ \E q \in Logical(West) : Col(dest) <= Col(q)
YAvailable ==
  \/ On(YX)
  \/ State(YX) = "off" /\ \E q \in Logical(North) : Row(dest) <= Row(q)

AdaptivePorts ==
  IF Aligned(at) THEN {XY}
  ELSE {p \in Port \ {inp} : \/ p = XY /\ XAvailable
                             \/ p = YX /\ YAvailable
                             \/ p = EscapePort /\ ~XAvailable /\ ~YAvailable}

adaptive_flov_mesh ==
  {[port |-> EscapePort, esc |-> TRUE]} \cup
  {[port |-> p, esc |-> FALSE] :
     p \in IF esc \/ misroute > MaxMisroute THEN {} ELSE AdaptivePorts}

Route(old) ==
  CASE function = "flov"                      -> flov_mesh(old)
    [] function \in {"opt_rflov", "opt_flov"} -> opt_mesh(old)
    [] function = "adaptive_flov"             -> adaptive_flov_mesh

-----------------------------------------------------------------------------
(* Neighbours may be off together except under R-FLOV, for which           *)
(* opt_rflov_mesh is made.                                                 *)
MayBeOff(r, pow) ==
  function = "opt_rflov" => \A p \in MeshPorts(r) : pow[Nbr(r, p)] \notin {"off", "wakeup"}

Init ==
  /\ function \in Functions
  /\ power \in [Router -> {"on", "off"}]
  /\ \A r \in Router : power[r] = "off" => r \in Gate /\ MayBeOff(r, power)
  /\ at \in Router /\ dest \in Router \ {at}
  /\ power[at] = "on" /\ power[dest] = "on"
  /\ inp = Local
  /\ esc = FALSE
  /\ route = {}
  /\ misroute = 0
  /\ changes = 0

(* _RouteUpdate *)
RouteUpdate ==
  /\ at # dest
  /\ route = {}
  /\ \E old \in BOOLEAN : route' = Route(old)
  /\ UNCHANGED <<function, power, packet, changes>>

(* VC or switch allocation sends the packet back to routing: after 300     *)
(* cycles without success, or because the downstream router is not on.     *)
BackToRoute ==
  /\ route # {}
  /\ route' = {}
  /\ UNCHANGED <<function, power, packet, changes>>

(* The hop that brought the packet here led away from its destination.     *)
Dist(r)  == LET d(i, j) == IF i < j THEN j - i ELSE i - j
            IN d(Row(r), Row(dest)) + d(Col(r), Col(dest))
Detoured == inp # Local /\ Dist(Nbr(at, inp)) < Dist(at)

(* Every router on the way may count a misroute hop; the one that the      *)
(* packet leaves counts one if it had come the wrong way (the other        *)
(* reasons, the length of the way and the rectangle of source and          *)
(* destination, are left open).  Only adaptive_flov_mesh looks at them,    *)
(* and only whether they exceed MaxMisroute.                               *)
Cap(m) == IF m > MaxMisroute THEN MaxMisroute + 1 ELSE m

MisrouteHops ==
  IF function # "adaptive_flov" THEN {misroute}
  ELSE Cap(misroute + IF Detoured THEN 1 ELSE 0) .. MaxMisroute + 1

(* The packet leaves, flies over the routers that are off and arrives at   *)
(* the downstream router.                                                  *)
Fly ==
  \E c \in route : \E q \in Landing(c.port) :
    /\ at' = q
    /\ inp' = Opp(c.port)
    /\ esc' = c.esc
    /\ route' = {}
    /\ misroute' \in MisrouteHops
    /\ UNCHANGED <<function, dest, power, changes>>

(* A router starts to drain, unless its core is the destination, or to     *)
(* wake up.                                                                *)
StartChange(r) ==
  /\ changes < MaxChanges
  /\ changes' = changes + 1
  /\ \/ power[r] = "on" /\ r # dest /\ power' = [power EXCEPT ![r] = "draining"]
     \/ power[r] = "off" /\ power' = [power EXCEPT ![r] = "wakeup"]
  /\ UNCHANGED <<function, packet, route>>

(* It succeeds; a drain may also be abandoned.                             *)
EndChange(r) ==
  /\ \/ power[r] = "draining" /\ r # at /\ MayBeOff(r, power)
        /\ power' = [power EXCEPT ![r] = "off"]
     \/ power[r] \in {"draining", "wakeup"} /\ power' = [power EXCEPT ![r] = "on"]
  /\ UNCHANGED <<function, packet, route, changes>>

Next ==
  \/ RouteUpdate
  \/ BackToRoute
  \/ Fly
  \/ \E r \in Gate : StartChange(r) \/ EndChange(r)

(* Routing is a pipeline stage.  The allocators are fair and the packets   *)
(* in front move on, so that a packet whose way is open again and again    *)
(* gets a VC and the switch in the end, and one whose way is closed is     *)
(* sent back to routing.  Drains and wake-ups end (modules Rflov and       *)
(* Flov).                                                                  *)
Closed == \A c \in route : Landing(c.port) = {}

Fairness ==
  /\ WF_vars(RouteUpdate)
  /\ WF_vars(Closed /\ BackToRoute)
  /\ SF_vars(Fly)
  /\ \A r \in Gate : WF_vars(EndChange(r))

Spec == Init /\ [][Next]_vars /\ Fairness

-----------------------------------------------------------------------------
(* The values the variables may take; misroute hops count to MaxMisroute+1. *)
TypeOK ==
  /\ function \in Functions
  /\ power \in [Router -> PowerState]
  /\ at \in Router /\ dest \in Router
  /\ inp \in Port \cup {Local}
  /\ esc \in BOOLEAN
  /\ route \subseteq Choice
  /\ misroute \in 0 .. MaxMisroute + 1
  /\ changes \in 0 .. MaxChanges

(* No route leaves the mesh, although every channel at the edge has a      *)
(* wrap-around neighbour and the functions go South or around routers that *)
(* are off without asking where the edge is.                               *)
StaysInMesh == \A c \in route : ~Boundary(at, c.port)

(* An order of the escape buffers, by router and direction of arrival:     *)
(* those that packets reach going North come last; the others go down the  *)
(* rows, and within a row from South to East or from South to West.        *)
Before(r, p, q, s) ==
  \/ p = North /\ s = North /\ Row(q) < Row(r)
  \/ p # North /\ s = North
  \/ p # North /\ s # North /\ Row(r) < Row(q)
  \/ /\ Row(r) = Row(q)
     /\ \/ p = South /\ s \in {East, West}
        \/ p = East /\ s = East /\ Col(r) < Col(q)
        \/ p = West /\ s = West /\ Col(q) < Col(r)

(* Deadlock freedom of the escape VC (README: "deadlock-free FLOV routing  *)
(* algorithms flov_mesh and adaptive_flov_mesh"): a packet in an escape    *)
(* buffer waits only for escape buffers further on in that order, however  *)
(* the routers switch and however old its route is, so that no packets     *)
(* wait for each other in a circle.                                        *)
EscapeAcyclic ==
  inp # Local /\ esc =>
    \A c \in route : \A q \in Landing(c.port) : Before(at, Opp(inp), q, c.port)

(* Every packet arrives, once the routers stop to switch: neither routing  *)
(* around routers that are off nor flying past a column on an old route    *)
(* makes it wander for ever.                                               *)
Delivered == <>(at = dest)
=============================================================================
