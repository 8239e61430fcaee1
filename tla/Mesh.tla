-------------------------------- MODULE Mesh --------------------------------
(***************************************************************************)
(* The K x K mesh on which the fly-over routers live.  A router is its     *)
(* pair <<row, col>>; the code's identifier is row * gK + col.  Channels   *)
(* are built for both directions of both dimensions, wrap-around included  *)
(* (KNCube::_BuildNet), so every router has four neighbours on ports 0..3; *)
(* the mesh is made by the routers, which treat the ports that leave the   *)
(* grid as boundary ports.                                                 *)
(***************************************************************************)
EXTENDS Integers

CONSTANT K    \* routers per row and per column (gK)

ASSUME KAssumption == K \in Nat /\ K >= 2

Coord  == 0 .. K - 1
Router == Coord \X Coord
Row(r) == r[1]
Col(r) == r[2]

East  == 0
West  == 1
South == 2
North == 3
Port  == 0 .. 3

(* Input and output i lead to the same neighbour; Opp(i) is the port on    *)
(* the other side of the router, and the port by which that neighbour is   *)
(* connected to this one.                                                  *)
Opp(p) == CASE p = 0 -> 1 [] p = 1 -> 0 [] p = 2 -> 3 [] p = 3 -> 2

Succ(i) == IF i = K - 1 THEN 0 ELSE i + 1
Pred(i) == IF i = 0 THEN K - 1 ELSE i - 1

Nbr(r, p) ==
  CASE p = 0 -> <<r[1], Succ(r[2])>>
    [] p = 1 -> <<r[1], Pred(r[2])>>
    [] p = 2 -> <<Succ(r[1]), r[2]>>
    [] p = 3 -> <<Pred(r[1]), r[2]>>

(* The ports of r whose channel wraps around: the routers never use them   *)
(* for packets and (almost) never for handshakes.                          *)
Boundary(r, p) ==
  \/ p = 0 /\ r[2] = K - 1
  \/ p = 1 /\ r[2] = 0
  \/ p = 2 /\ r[1] = K - 1
  \/ p = 3 /\ r[1] = 0

BoundaryPorts(r) == {p \in Port : Boundary(r, p)}
MeshPorts(r)     == {p \in Port : ~Boundary(r, p)}

(* The routers of the bottom row hold the memory controllers and are       *)
(* never power-gated.                                                      *)
BottomRow == {r \in Router : r[1] = K - 1}
=============================================================================
