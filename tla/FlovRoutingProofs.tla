------------------------- MODULE FlovRoutingProofs -------------------------
(***************************************************************************)
(* Proofs about the routing functions, for meshes of any size, any set of  *)
(* routers that may be off and any number of changes.                      *)
(***************************************************************************)
EXTENDS FlovRouting, TLAPS

(* Before is a strict order of the escape buffers: packets that wait only  *)
(* for later ones never wait in a circle.                                  *)
THEOREM BeforeIsStrictOrder ==
  ASSUME NEW r \in Router, NEW q \in Router, NEW t \in Router,
         NEW p \in Port, NEW s \in Port, NEW u \in Port
  PROVE  /\ ~Before(r, p, r, p)
         /\ Before(r, p, q, s) /\ Before(q, s, t, u) => Before(r, p, t, u)
<1>1. {Row(r), Row(q), Row(t), Col(r), Col(q), Col(t)} \subseteq Int
  BY KAssumption DEF Router, Coord, Row, Col
<1>2. ~Before(r, p, r, p)
  BY <1>1 DEF Before, Port, East, West, South, North
<1>3. Before(r, p, q, s) /\ Before(q, s, t, u) => Before(r, p, t, u)
  BY <1>1 DEF Before, Port, East, West, South, North
<1> QED BY <1>2, <1>3

-----------------------------------------------------------------------------
(* The parts of the inductive invariant.                                   *)

BottomOn == \A r \in BottomRow : power[r] = "on"
DestOn   == power[dest] = "on"
Going    == route # {} => at # dest

RoutingInv == TypeOK /\ BottomOn /\ DestOn /\ Going /\ StaysInMesh

(* Every variable keeps its type.                                          *)
LEMMA InitRouting == Init => RoutingInv
<1> SUFFICES ASSUME Init PROVE RoutingInv
  OBVIOUS
<1>1. TypeOK
  <2>1. power \in [Router -> PowerState]
    BY DEF Init, PowerState
  <2>2. misroute \in 0 .. MaxMisroute + 1 /\ changes \in 0 .. MaxChanges
    BY FlovRoutingAssumption DEF Init
  <2> QED BY <2>1, <2>2 DEF Init, TypeOK, Local
<1>2. BottomOn
  <2>1. \A r \in BottomRow : power[r] \in {"on", "off"} /\ r \notin Gate
    BY FlovRoutingAssumption DEF Init, BottomRow
  <2> QED BY <2>1 DEF Init, BottomOn, BottomRow
<1> QED BY <1>1, <1>2 DEF Init, RoutingInv, DestOn, Going, StaysInMesh

(* The routers ahead of r, port by port.                                   *)
LEMMA AheadByPort ==
  ASSUME NEW r \in Router, NEW q
  PROVE  /\ q \in Ahead(r, East)  <=> q \in Router /\ Row(q) = Row(r) /\ Col(q) > Col(r)
         /\ q \in Ahead(r, West)  <=> q \in Router /\ Row(q) = Row(r) /\ Col(q) < Col(r)
         /\ q \in Ahead(r, South) <=> q \in Router /\ Col(q) = Col(r) /\ Row(q) > Row(r)
         /\ q \in Ahead(r, North) <=> q \in Router /\ Col(q) = Col(r) /\ Row(q) < Row(r)
BY DEF Ahead, East, West, South, North

(* Where the ports of dimension-order routing lead: towards dest.          *)
LEMMA DimensionOrder ==
  ASSUME at \in Router, dest \in Router, at # dest
  PROVE  /\ {XY, YX} \subseteq Port
         /\ ~Boundary(at, XY) /\ ~Boundary(at, YX)
         /\ Aligned(at) => XY = YX
         /\ ~Aligned(at) => XY = XPort
<1>1. /\ at = <<at[1], at[2]>> /\ dest = <<dest[1], dest[2]>>
      /\ {at[1], at[2], dest[1], dest[2]} \subseteq 0 .. K - 1
  BY DEF Router, Coord
<1>2. at[1] # dest[1] \/ at[2] # dest[2]
  BY <1>1
<1> QED
  BY <1>1, <1>2, KAssumption
     DEF XY, YX, XPort, YPort, Aligned, Boundary, Row, Col, Port, East, West, South, North

(* A router of the bottom row sees its row neighbours on.                  *)
LEMMA BottomSeesOn ==
  ASSUME at \in Router, dest \in Router, at # dest, BottomOn, ~AboveBottom, ~Aligned(at)
  PROVE  On(XY)
<1>1. /\ at = <<at[1], at[2]>>
      /\ {at[1], at[2], dest[1], dest[2]} \subseteq 0 .. K - 1
  BY DEF Router, Coord
<1>2. at[1] = K - 1
  BY <1>1, KAssumption DEF AboveBottom, Row
<1>3. XY \in {East, West} /\ ~Boundary(at, XY)
  BY DimensionOrder DEF XPort
<1>4. Nbr(at, XY) \in BottomRow
  BY <1>1, <1>2, <1>3, KAssumption
     DEF Nbr, BottomRow, Router, Coord, Succ, Pred, Boundary, East, West
<1> QED BY <1>3, <1>4 DEF On, State, BottomOn

(* Every port a routing function chooses leads to a router of the mesh.    *)
LEMMA RouteStays ==
  ASSUME RoutingInv, at # dest, NEW old \in BOOLEAN
  PROVE  /\ Route(old) \subseteq Choice
         /\ \A c \in Route(old) : ~Boundary(at, c.port)
<1>1. /\ at \in Router /\ dest \in Router /\ esc \in BOOLEAN /\ BottomOn
  BY DEF RoutingInv, TypeOK
<1>2. /\ at = <<at[1], at[2]>>
      /\ {at[1], at[2], dest[1], dest[2]} \subseteq 0 .. K - 1
  BY <1>1 DEF Router, Coord
<1>3. AboveBottom => ~Boundary(at, South)
  BY <1>2, KAssumption DEF AboveBottom, Boundary, Row, South
<1>4. South \in Port /\ Port = 0 .. 3
  BY DEF Port, South
<1>5. CASE function = "flov"
  <2>1. \A c \in Route(old) : c \in Choice /\ (c.port \in {XY, YX} \/ (c.port = South /\ AboveBottom))
    <3> DEFINE p == IF On(XY) THEN XY ELSE YX
               e == esc \/ old \/ (~Aligned(at) /\ ~On(p))
               o == IF e /\ AboveBottom /\ ~Aligned(at) THEN South ELSE p
    <3>1. e \in BOOLEAN
      BY <1>1 DEF Aligned, On
    <3>2. o \in {XY, YX} \/ (o = South /\ AboveBottom)
      OBVIOUS
    <3>3. Route(old) = {[port |-> o, esc |-> e]}
      BY <1>5 DEF Route, flov_mesh
    <3> HIDE DEF e, o
    <3> QED BY <1>1, <1>4, <3>1, <3>2, <3>3, DimensionOrder DEF Choice
  <2> QED BY <1>1, <1>3, <2>1, DimensionOrder
<1>6. CASE function = "adaptive_flov"
  <2>1. EscapePort = XY \/ (EscapePort = South /\ AboveBottom)
    BY DEF EscapePort
  <2>2. AdaptivePorts \subseteq {XY, YX, EscapePort}
    BY DEF AdaptivePorts
  <2>3. \A c \in Route(old) : \E p \in {XY, YX, EscapePort}, e \in BOOLEAN : c = [port |-> p, esc |-> e]
    BY <1>6, <2>2 DEF Route, adaptive_flov_mesh
  <2>4. {XY, YX, EscapePort} \subseteq Port
    BY <1>1, <1>4, <2>1, DimensionOrder
  <2>5. \A p \in {XY, YX, EscapePort} : ~Boundary(at, p)
    BY <1>1, <1>3, <2>1, DimensionOrder
  <2> QED BY <2>3, <2>4, <2>5 DEF Choice
<1>7. CASE function \in {"opt_rflov", "opt_flov"}
  <2>1. ASSUME NEW e \in BOOLEAN, ~Aligned(at), ~On(XY)
        PROVE  Around(e) \in Port /\ ~Boundary(at, Around(e))
    <3>1. ~Boundary(at, South)
      BY <1>1, <1>3, <2>1, BottomSeesOn
    <3>2. ASSUME NEW p \in Port, NEW q \in Logical(p) PROVE ~Boundary(at, p)
      <4>1. q \in Ahead(at, p)
        BY DEF Logical, Nearest
      <4>2. q \in Router /\ {q[1], q[2]} \subseteq 0 .. K - 1
        BY <4>1 DEF Ahead, Router, Coord
      <4> QED
        BY <1>1, <1>2, <4>1, <4>2, KAssumption, AheadByPort
           DEF Boundary, Row, Col, East, West, South, North, Port
    <3>3. CASE function = "opt_rflov"
      BY <1>2, <3>1, <3>3, KAssumption
         DEF Around, Boundary, Row, Col, East, West, South, North, Port
    <3>4. CASE function = "opt_flov"
      BY <3>1, <3>2, <3>4 DEF Around, East, West, South, North, Port
    <3> QED BY <1>7, <3>3, <3>4
  <2> DEFINE e0 == esc \/ old
             around == ~Aligned(at) /\ ~On(XY)
             p0 == IF around THEN Around(e0) ELSE XY
             e == e0 \/ (around /\ inp = South /\ p0 = South)
             p == IF e /\ AboveBottom /\ ~Aligned(at) /\ p0 = North THEN South ELSE p0
  <2>2. p0 \in Port /\ ~Boundary(at, p0)
    BY <1>1, <2>1, DimensionOrder
  <2>3. p \in Port /\ ~Boundary(at, p)
    BY <1>3, <1>4, <2>2
  <2>4. e \in BOOLEAN
    BY <1>1 DEF Aligned, On
  <2>5. Route(old) = {[port |-> p, esc |-> e]}
    BY <1>7 DEF Route, opt_mesh
  <2> HIDE DEF p, e
  <2> QED BY <2>3, <2>4, <2>5 DEF Choice
<1>8. function \in {"flov", "opt_rflov", "opt_flov", "adaptive_flov"}
  BY FlovRoutingAssumption DEF RoutingInv, TypeOK
<1> QED BY <1>5, <1>6, <1>7, <1>8

(* A router ahead is a router of the mesh.                                 *)
LEMMA LandingIsRouter ==
  ASSUME NEW p \in Port, NEW q \in Landing(p)
  PROVE  q \in Router /\ q \in Ahead(at, p) /\ power[q] = "on"
BY DEF Landing, Nearest, Ahead

(* Every step keeps the invariant.                                         *)
LEMMA NextRouting == RoutingInv /\ [Next]_vars => RoutingInv'
<1> SUFFICES ASSUME RoutingInv, [Next]_vars PROVE RoutingInv'
  OBVIOUS
<1> USE DEF RoutingInv
<1>1. CASE RouteUpdate
  BY <1>1, RouteStays
     DEF RouteUpdate, packet, TypeOK, BottomOn, DestOn, Going, StaysInMesh
<1>2. CASE BackToRoute
  BY <1>2 DEF BackToRoute, packet, TypeOK, BottomOn, DestOn, Going, StaysInMesh
<1>3. CASE Fly
  <2>1. PICK c \in route : \E q \in Landing(c.port) :
          /\ at' = q /\ inp' = Opp(c.port) /\ esc' = c.esc /\ route' = {}
          /\ misroute' \in MisrouteHops /\ UNCHANGED <<function, dest, power, changes>>
    BY <1>3 DEF Fly
  <2>2. c.port \in Port /\ c.esc \in BOOLEAN
    BY <2>1 DEF TypeOK, Choice
  <2>3. at' \in Router /\ inp' \in Port \cup {Local}
    BY <2>1, <2>2, LandingIsRouter DEF Opp, Port
  <2>4. misroute' \in 0 .. MaxMisroute + 1
    <3>1. misroute \in 0 .. MaxMisroute + 1 /\ MaxMisroute \in Nat
      BY FlovRoutingAssumption DEF TypeOK
    <3>2. \A m \in {0, 1} : Cap(misroute + m) \in Nat
      BY <3>1 DEF Cap
    <3> QED BY <2>1, <3>1, <3>2 DEF MisrouteHops
  <2> QED
    BY <2>1, <2>2, <2>3, <2>4 DEF TypeOK, BottomOn, DestOn, Going, StaysInMesh
<1>4. ASSUME NEW r \in Gate, StartChange(r) PROVE RoutingInv'
  <2>1. r \in Router \ BottomRow
    BY FlovRoutingAssumption
  <2> QED
    BY <1>4, <2>1, FlovRoutingAssumption
       DEF StartChange, packet, TypeOK, PowerState, BottomOn, BottomRow, DestOn, Going, StaysInMesh
<1>5. ASSUME NEW r \in Gate, EndChange(r) PROVE RoutingInv'
  <2>1. r \in Router \ BottomRow
    BY FlovRoutingAssumption
  <2> QED
    BY <1>5, <2>1
       DEF EndChange, packet, TypeOK, PowerState, BottomOn, BottomRow, DestOn, Going, StaysInMesh
<1>6. CASE UNCHANGED vars
  BY <1>6 DEF vars, packet, TypeOK, BottomOn, DestOn, Going, StaysInMesh
<1> QED BY <1>1, <1>2, <1>3, <1>4, <1>5, <1>6 DEF Next

(* The state stays well-typed, and no route leaves the mesh, whichever     *)
(* routing function is used and however the routers switch.                *)
THEOREM RoutesStayInMesh == Spec => [](TypeOK /\ StaysInMesh)
<1>1. RoutingInv => TypeOK /\ StaysInMesh
  BY DEF RoutingInv
<1> QED BY <1>1, InitRouting, NextRouting, PTL DEF Spec

-----------------------------------------------------------------------------
(* Deadlock freedom of the escape VC for the two functions that the        *)
(* repository presents as deadlock-free.                                   *)

SouthEscape == Functions \subseteq {"flov", "adaptive_flov"}

(* Where a packet that follows EscapePort through port p may be: past the  *)
(* way down only in the row or column of its destination, or in the bottom *)
(* row, and never beyond its destination.                                  *)
Arrival(r, p) ==
  /\ p = North => Col(r) = Col(dest) /\ Row(dest) <= Row(r)
  /\ p = East  => Col(r) <= Col(dest) /\ Row(r) \in {Row(dest), K - 1}
  /\ p = West  => Col(dest) <= Col(r) /\ Row(r) \in {Row(dest), K - 1}

EscapeInv ==
  /\ \A c \in route : c.esc => c.port = EscapePort
  /\ esc => \A c \in route : c.esc
  /\ esc /\ inp # Local => Arrival(at, Opp(inp))

(* The functions send escape packets by EscapePort, and only so.           *)
LEMMA EscapeRoute ==
  ASSUME RoutingInv, SouthEscape, at # dest, NEW old \in BOOLEAN
  PROVE  /\ \A c \in Route(old) : c.esc => c.port = EscapePort
         /\ esc => \A c \in Route(old) : c.esc
<1>1. at \in Router /\ dest \in Router /\ BottomOn
  BY DEF RoutingInv, TypeOK
<1>2. CASE function = "flov"
  <2> DEFINE p == IF On(XY) THEN XY ELSE YX
             e == esc \/ old \/ (~Aligned(at) /\ ~On(p))
             o == IF e /\ AboveBottom /\ ~Aligned(at) THEN South ELSE p
  <2>1. Route(old) = {[port |-> o, esc |-> e]}
    BY <1>2 DEF Route, flov_mesh
  <2>2. Aligned(at) => p = XY
    BY <1>1, DimensionOrder
  <2>3. ~Aligned(at) /\ ~AboveBottom => p = XY
    BY <1>1, BottomSeesOn
  <2>4. e => o = EscapePort
    BY <2>2, <2>3 DEF EscapePort
  <2>5. esc => e
    OBVIOUS
  <2> HIDE DEF o, e
  <2> QED BY <2>1, <2>4, <2>5
<1>3. CASE function = "adaptive_flov"
  BY <1>3 DEF Route, adaptive_flov_mesh
<1> QED BY <1>2, <1>3 DEF SouthEscape, RoutingInv, TypeOK

(* A packet does not fly past a router that is on.                         *)
LEMMA NoOvershoot ==
  ASSUME NEW p \in Port, NEW q \in Landing(p), NEW d \in Router,
         power[d] = "on", d \in Ahead(at, p)
  PROVE  q \notin Ahead(d, p)
BY DEF Landing, Nearest

(* An escape packet lands where Arrival allows, and later in the order.    *)
LEMMA EscapeLands ==
  ASSUME RoutingInv, at # dest, NEW q \in Landing(EscapePort)
  PROVE  /\ Arrival(q, EscapePort)
         /\ inp \in Port /\ Arrival(at, Opp(inp)) => Before(at, Opp(inp), q, EscapePort)
<1>1. /\ at \in Router /\ dest \in Router /\ BottomOn /\ DestOn
  BY DEF RoutingInv, TypeOK
<1>2. EscapePort \in Port
  BY <1>1, DimensionOrder DEF EscapePort, Port, South
<1>3. q \in Router /\ q \in Ahead(at, EscapePort)
  BY <1>2, LandingIsRouter
<1>4. /\ {Row(at), Col(at), Row(dest), Col(dest), Row(q), Col(q)} \subseteq 0 .. K - 1
      /\ Row(at) # Row(dest) \/ Col(at) # Col(dest)
      /\ at = <<at[1], at[2]>> /\ dest = <<dest[1], dest[2]>>
  BY <1>1, <1>3 DEF Router, Coord, Row, Col
<1> DEFINE foot == <<K - 1, Col(dest)>>
<1>5. foot \in Router /\ Row(foot) = K - 1 /\ Col(foot) = Col(dest) /\ power[foot] = "on"
  BY <1>1, <1>4, KAssumption DEF Router, Coord, Row, Col, BottomOn, BottomRow
<1> HIDE DEF foot
<1>6. CASE EscapePort = South
  <2>1. Row(q) > Row(at)
    BY <1>1, <1>3, <1>6, AheadByPort
  <2>2. Col(at) # Col(dest) \/ Row(at) < Row(dest)
    BY <1>4, <1>6, KAssumption
       DEF EscapePort, XY, XPort, YPort, Aligned, East, West, South, North
  <2> QED
    BY <1>4, <1>6, <2>1, <2>2 DEF Arrival, Before, Opp, Port, East, West, South, North
<1>7. CASE EscapePort = East
  <2>1. Row(q) = Row(at) /\ Col(at) < Col(q)
    BY <1>1, <1>3, <1>7, AheadByPort
  <2>2. Col(at) < Col(dest) /\ Row(at) \in {Row(dest), K - 1}
    BY <1>4, <1>7, KAssumption
       DEF EscapePort, XY, XPort, YPort, Aligned, AboveBottom, East, West, South, North
  <2>3. Col(q) <= Col(dest)
    <3>1. CASE Row(at) = Row(dest)
      BY <1>1, <1>2, <1>3, <1>4, <1>7, <2>1, <2>2, <3>1, AheadByPort, NoOvershoot DEF DestOn
    <3>2. CASE Row(at) = K - 1
      BY <1>1, <1>2, <1>3, <1>4, <1>5, <1>7, <2>1, <2>2, <3>2, AheadByPort, NoOvershoot
    <3> QED BY <2>2, <3>1, <3>2
  <2> QED
    BY <1>4, <1>7, <2>1, <2>2, <2>3 DEF Arrival, Before, Opp, Port, East, West, South, North
<1>8. CASE EscapePort = West
  <2>1. Row(q) = Row(at) /\ Col(q) < Col(at)
    BY <1>1, <1>3, <1>8, AheadByPort
  <2>2. Col(dest) < Col(at) /\ Row(at) \in {Row(dest), K - 1}
    BY <1>4, <1>8, KAssumption
       DEF EscapePort, XY, XPort, YPort, Aligned, AboveBottom, East, West, South, North
  <2>3. Col(dest) <= Col(q)
    <3>1. CASE Row(at) = Row(dest)
      BY <1>1, <1>2, <1>3, <1>4, <1>8, <2>1, <2>2, <3>1, AheadByPort, NoOvershoot DEF DestOn
    <3>2. CASE Row(at) = K - 1
      BY <1>1, <1>2, <1>3, <1>4, <1>5, <1>8, <2>1, <2>2, <3>2, AheadByPort, NoOvershoot
    <3> QED BY <2>2, <3>1, <3>2
  <2> QED
    BY <1>4, <1>8, <2>1, <2>2, <2>3 DEF Arrival, Before, Opp, Port, East, West, South, North
<1>9. CASE EscapePort = North
  <2>1. Col(q) = Col(at) /\ Row(q) < Row(at)
    BY <1>1, <1>3, <1>9, AheadByPort
  <2>2. Col(at) = Col(dest) /\ Row(dest) < Row(at)
    BY <1>4, <1>9
       DEF EscapePort, XY, XPort, YPort, Aligned, AboveBottom, East, West, South, North
  <2>3. Row(dest) <= Row(q)
    BY <1>1, <1>2, <1>3, <1>4, <1>9, <2>1, <2>2, AheadByPort, NoOvershoot DEF DestOn
  <2> QED
    BY <1>4, <1>9, <2>1, <2>2, <2>3 DEF Arrival, Before, Opp, Port, East, West, South, North
<1> QED BY <1>2, <1>6, <1>7, <1>8, <1>9 DEF Port, East, West, South, North

(* Every step keeps the second invariant.                                  *)
LEMMA NextEscape == SouthEscape /\ RoutingInv /\ EscapeInv /\ [Next]_vars => EscapeInv'
<1> SUFFICES ASSUME SouthEscape, RoutingInv, EscapeInv, [Next]_vars PROVE EscapeInv'
  OBVIOUS
<1>1. UNCHANGED <<at, dest>> => EscapePort' = EscapePort
  BY DEF EscapePort, AboveBottom, Aligned, XY, XPort, YPort
<1>2. UNCHANGED <<at, dest, inp>> /\ Arrival(at, Opp(inp)) => Arrival(at, Opp(inp))'
  BY DEF Arrival
<1>3. CASE RouteUpdate
  BY <1>1, <1>2, <1>3, EscapeRoute DEF RouteUpdate, packet, EscapeInv
<1>4. CASE BackToRoute
  BY <1>2, <1>4 DEF BackToRoute, packet, EscapeInv
<1>5. CASE Fly
  <2>1. PICK c \in route : \E q \in Landing(c.port) :
          at' = q /\ inp' = Opp(c.port) /\ esc' = c.esc /\ route' = {} /\ dest' = dest
    BY <1>5 DEF Fly
  <2>2. at # dest /\ c.port \in Port
    BY <2>1 DEF RoutingInv, Going, TypeOK, Choice
  <2>3. ASSUME c.esc PROVE Arrival(at, Opp(inp))'
    <3>1. c.port = EscapePort
      BY <2>1, <2>3 DEF EscapeInv
    <3>2. Arrival(at', c.port)
      BY <2>1, <2>2, <3>1, EscapeLands
    <3>3. Opp(Opp(c.port)) = c.port
      BY <2>2 DEF Opp, Port
    <3> QED BY <2>1, <3>2, <3>3 DEF Arrival
  <2> QED BY <2>1, <2>3 DEF EscapeInv
<1>6. ASSUME NEW r \in Gate, StartChange(r) \/ EndChange(r) PROVE EscapeInv'
  BY <1>1, <1>2, <1>6 DEF StartChange, EndChange, packet, EscapeInv
<1>7. CASE UNCHANGED vars
  BY <1>1, <1>2, <1>7 DEF vars, packet, EscapeInv
<1> QED BY <1>3, <1>4, <1>5, <1>6, <1>7 DEF Next

(* Under flov_mesh and adaptive_flov_mesh, on a mesh of any size, packets  *)
(* in escape buffers wait only for later ones in the order Before, which   *)
(* is strict: the escape VC has no deadlock.                               *)
THEOREM EscapeIsDeadlockFree == SouthEscape => (Spec => []EscapeAcyclic)
<1> SUFFICES ASSUME SouthEscape PROVE Spec => []EscapeAcyclic
  OBVIOUS
<1>1. Init => RoutingInv /\ EscapeInv
  BY InitRouting DEF Init, EscapeInv
<1>2. RoutingInv /\ EscapeInv /\ [Next]_vars => (RoutingInv /\ EscapeInv)'
  BY NextRouting, NextEscape
<1>3. RoutingInv /\ EscapeInv => EscapeAcyclic
  <2> SUFFICES ASSUME RoutingInv, EscapeInv, inp # Local, esc,
                      NEW c \in route, NEW q \in Landing(c.port)
               PROVE  Before(at, Opp(inp), q, c.port)
    BY DEF EscapeAcyclic
  <2>1. c.port = EscapePort /\ Arrival(at, Opp(inp))
    BY DEF EscapeInv
  <2>2. at # dest /\ inp \in Port
    BY DEF RoutingInv, Going, TypeOK
  <2> QED BY <2>1, <2>2, EscapeLands
<1> QED BY <1>1, <1>2, <1>3, PTL DEF Spec
=============================================================================
