------------------------------ MODULE Parking ------------------------------
(***************************************************************************)
(* The choice of the parked cores and routers, in the constructor of       *)
(* Network (powergate_auto_config).  First numOff cores are drawn at       *)
(* random.  Then the routers are chosen: conservative router parking (rpc) *)
(* parks the router of a parked core if none of the eight routers around   *)
(* it is parked; aggressive router parking (rpa) parks the routers of all  *)
(* parked cores, and then switches routers on again, one path to the       *)
(* fabric manager for every part of the mesh that is cut off from it.      *)
(***************************************************************************)
EXTENDS Mesh, FiniteSets

CONSTANTS
  FabricManager,  \* _fabric_manager: the router at the root of the escape tree
  OffCounts       \* the numbers of cores to park that a configuration may ask for

(* The constructor's check: one row has to stay active. *)
ASSUME ParkingAssumption ==
  /\ FabricManager \in Router
  /\ OffCounts \subseteq {n \in Nat : n + K <= K * K}

VARIABLES
  stage,     \* what the constructor is doing: "cores", "routers" or "done"
  policy,    \* _powergate_type
  numOff,    \* num_off_cores
  offCores,  \* _off_cores
  on,        \* the routers whose state is on (_router_states)
  pending    \* rpc: the parked cores to come; rpa: the components to connect

parking == <<stage, policy, numOff, offCores, on, pending>>

Id(r) == K * Row(r) + Col(r)

First(S) == CHOOSE r \in S : \A s \in S : Id(r) <= Id(s)

Abs(i) == IF i < 0 THEN -i ELSE i

(* Routers with a channel between them, in the grid. *)
Adjacent(r, s) == Abs(Row(r) - Row(s)) + Abs(Col(r) - Col(s)) = 1

(* The direct and indirect neighbours. *)
Around(r) ==
  {s \in Router \ {r} : Abs(Row(r) - Row(s)) <= 1 /\ Abs(Col(r) - Col(s)) <= 1}

ParkingInit ==
  /\ stage = "cores"
  /\ policy \in {"rpa", "rpc"}
  /\ numOff \in OffCounts
  /\ offCores = {}
  /\ on = Router
  /\ pending = {}

-----------------------------------------------------------------------------
(* Cores. *)

(* Bug: RandomInt(_nodes - 2 - gK). *)
Bug_DrawnShort == {r \in Router : Id(r) < K * K - K - 1}

(* RandomInt(_nodes - 1 - gK) *)
Drawn == Router \ BottomRow

(* A core that is parked already, and the fabric manager, are drawn in vain. *)
WithCore(c) == offCores \cup ({c} \ {FabricManager})

ParkCore ==
  /\ stage = "cores"
  /\ Cardinality(offCores) < numOff
  /\ \E c \in Drawn : offCores' = WithCore(c)
  /\ UNCHANGED <<stage, policy, numOff, on, pending>>

-----------------------------------------------------------------------------
(* Routers. *)

(* A part of S without channels to the rest of S. *)
Isolated(R, S) == \A r \in R, s \in S \ R : ~Adjacent(r, s)

(* The routers that r is connected with over routers of S. *)
Component(r, S) ==
  LET Parts == {R \in SUBSET S : r \in R /\ Isolated(R, S)}
  IN {s \in S : \A R \in Parts : s \in R}

CutOff(S) == {C \in {Component(r, S) : r \in S} : FabricManager \notin C}

CoresParked ==
  /\ stage = "cores"
  /\ Cardinality(offCores) = numOff
  /\ stage' = "routers"
  /\ IF policy = "rpa"
       THEN on' = Router \ offCores /\ pending' = CutOff(on')
       ELSE on' = Router /\ pending' = offCores
  /\ UNCHANGED <<policy, numOff, offCores>>

(* Conservative parking, in the order of the identifiers. *)
ParkRouter ==
  /\ stage = "routers" /\ policy = "rpc" /\ pending # {}
  /\ LET c == First(pending) IN
       /\ on' = IF Around(c) \subseteq on THEN on \ {c} ELSE on
       /\ pending' = pending \ {c}
  /\ UNCHANGED <<stage, policy, numOff, offCores>>

(* is_edge_router, on the routers that were on at first. *)
OnNeighbors(r) == {s \in Router \ offCores : Adjacent(r, s)}
OnBorder(r)    == Row(r) \in {0, K - 1} \/ Col(r) \in {0, K - 1}
EdgeRouter(r)  == Cardinality(OnNeighbors(r)) < (IF OnBorder(r) THEN 3 ELSE 4)

Between(a, b) == {i \in Coord : (a <= i /\ i <= b) \/ (b <= i /\ i <= a)}

(* Bug: the way in y starts in the column of r. *)
Bug_PathToManager(r) ==
  (  {s \in Router : Row(s) = Row(r) /\ Col(s) \in Between(Col(r), Col(FabricManager))}
  \cup {s \in Router : Col(s) = Col(r) /\ Row(s) \in Between(Row(r), Row(FabricManager))})

(* First x, then y. *)
PathToManager(r) ==
  (  {s \in Router : Row(s) = Row(r) /\ Col(s) \in Between(Col(r), Col(FabricManager))}
  \cup {s \in Router : Col(s) = Col(FabricManager)
                       /\ Row(s) \in Between(Row(r), Row(FabricManager))})

(* Aggressive parking connects a component by the way from one of its edge *)
(* routers, the best of eight random ones: it may be any of them.          *)
ConnectComponent ==
  /\ stage = "routers" /\ policy = "rpa" /\ pending # {}
  /\ LET C == CHOOSE D \in pending : \A E \in pending : Id(First(D)) <= Id(First(E)) IN
       /\ \E r \in C : EdgeRouter(r) /\ on' = on \cup PathToManager(r)
       /\ pending' = pending \ {C}
  /\ UNCHANGED <<stage, policy, numOff, offCores>>

RoutersParked ==
  /\ stage = "routers"
  /\ pending = {}
  /\ stage' = "done"
  /\ UNCHANGED <<policy, numOff, offCores, on, pending>>

ParkingNext ==
  ParkCore \/ CoresParked \/ ParkRouter \/ ConnectComponent \/ RoutersParked

ParkingSpec == ParkingInit /\ [][ParkingNext]_parking

-----------------------------------------------------------------------------
(* Properties.                                                             *)

(* No node whose core is on is left without its router (_Inject skips only *)
(* the nodes of parked cores), and the fabric manager is on.               *)
CoresHaveRouters == Router \ on \subseteq offCores \ {FabricManager}

(* Conservative parking keeps the parked routers apart, also diagonally.   *)
ParkedApart ==
  policy = "rpc" =>
    \A r, s \in Router \ on :
      r = s \/ Abs(Row(r) - Row(s)) >= 2 \/ Abs(Col(r) - Col(s)) >= 2

(* The routers that are on form one network: otherwise RouteTbl follows    *)
(* predecessors that do not exist.                                         *)
Connected == stage = "done" => \A S \in SUBSET on : Isolated(S, on) => S \in {{}, on}

(* The choice comes to an end if there are enough cores that may be drawn. *)
(* (The constructor's check lets one more be asked for, see README.)       *)
ChoiceEnds ==
  numOff <= Cardinality(Router \ (BottomRow \cup {FabricManager})) ~> stage = "done"
=============================================================================
