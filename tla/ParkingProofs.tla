--------------------------- MODULE ParkingProofs ---------------------------
(***************************************************************************)
(* Proofs about the choice of the parked cores and routers, for every K,   *)
(* every fabric manager and any numbers of cores.                          *)
(***************************************************************************)
EXTENDS Parking, FiniteSetTheorems, WellFoundedInduction, TLAPS

LEMMA Least ==
  ASSUME NEW S \in SUBSET Nat, S # {}
  PROVE  \E x \in S : \A y \in S : x <= y
<1> DEFINE R == OpToRel(<, Nat)
<1>1. IsWellFoundedOn(R, Nat)
  BY NatLessThanWellFounded
<1>2. \A x \in Nat, y \in Nat : <<y, x>> \in R <=> y < x
  BY DEF OpToRel
<1> HIDE DEF R
<1>3. PICK x \in S : \A y \in S : ~(<<y, x>> \in R)
  BY <1>1, WFMin
<1>4. \A y \in S : ~(y < x)
  BY <1>2, <1>3
<1> QED
  BY <1>4

-----------------------------------------------------------------------------
(* The mesh. *)

LEMMA RouterType ==
  ASSUME NEW r \in Router
  PROVE  /\ Row(r) \in Coord /\ Col(r) \in Coord /\ r = <<Row(r), Col(r)>>
         /\ Row(r) \in Int /\ Col(r) \in Int
  BY KAssumption DEF Router, Row, Col, Coord

LEMMA AdjacentSymmetric ==
  ASSUME NEW r \in Router, NEW s \in Router, Adjacent(r, s)
  PROVE  Adjacent(s, r)
  BY RouterType DEF Adjacent, Abs

LEMMA AroundSymmetric ==
  ASSUME NEW r \in Router, NEW s \in Around(r)
  PROVE  s \in Router /\ r \in Around(s)
<1>1. s \in Router /\ s # r
  BY DEF Around
<1> QED
  BY <1>1, RouterType DEF Around, Abs

LEMMA IdType ==
  ASSUME NEW r \in Router
  PROVE  Id(r) \in Nat
<1>1. Row(r) \in Nat /\ Col(r) \in Nat /\ K \in Nat
  BY RouterType, KAssumption DEF Coord
<1> QED
  BY <1>1 DEF Id

LEMMA FirstIsMember ==
  ASSUME NEW S \in SUBSET Router, S # {}
  PROVE  First(S) \in S
<1> DEFINE I == {Id(r) : r \in S}
<1>1. I \in SUBSET Nat /\ I # {}
  BY IdType
<1>2. PICK i \in I : \A j \in I : i <= j
  <2> HIDE DEF I
  <2> QED
    BY <1>1, Least
<1>3. \E r \in S : \A s \in S : Id(r) <= Id(s)
  BY <1>2
<1> QED
  BY <1>3 DEF First

(* A part without channels to the rest is closed under channels, and so is *)
(* the rest.                                                               *)
LEMMA IsolatedClosed ==
  ASSUME NEW S \in SUBSET Router, NEW R \in SUBSET S, Isolated(R, S),
         NEW r \in R, NEW s \in S, Adjacent(r, s) \/ Adjacent(s, r)
  PROVE  s \in R
  BY AdjacentSymmetric DEF Isolated

LEMMA RestIsIsolated ==
  ASSUME NEW S \in SUBSET Router, NEW R \in SUBSET S, Isolated(R, S)
  PROVE  Isolated(S \ R, S)
  BY AdjacentSymmetric DEF Isolated

LEMMA AbsOfDifference ==
  ASSUME NEW i \in Int
  PROVE  Abs(i - i) = 0 /\ Abs(i - (i + 1)) = 1
<1>1. i - i = 0 /\ i - (i + 1) = -1
  OBVIOUS
<1>2. \A j \in Int : (j = 0 => Abs(j) = 0) /\ (j = -1 => Abs(j) = 1)
  BY DEF Abs
<1>3. i - i \in Int /\ i - (i + 1) \in Int
  OBVIOUS
<1> QED
  BY <1>1, <1>2, <1>3

LEMMA AbsType ==
  ASSUME NEW i \in Int
  PROVE  Abs(i) \in Nat
  BY DEF Abs

(* A part that holds one router of a line holds all others up to the first *)
(* gap of S in that line.                                                  *)
LEMMA AlongLine ==
  ASSUME NEW S \in SUBSET Router, NEW R \in SUBSET S, Isolated(R, S),
         NEW line \in [Coord -> Router],
         \A i, j \in Coord : Abs(i - j) = 1 => Adjacent(line[i], line[j]),
         NEW a \in Coord, NEW c \in Coord, line[a] \in R,
         \A i \in Between(a, c) : line[i] \in S
  PROVE  line[c] \in R
<1> DEFINE Miss == {i \in Between(a, c) : line[i] \notin R}
           D == {Abs(i - a) : i \in Miss}
<1>0. \A i \in Coord : i \in Int
  BY DEF Coord
<1>1. CASE Miss = {}
  BY <1>0, <1>1 DEF Between
<1>2. CASE Miss # {}
  <2>1. D \in SUBSET Nat /\ D # {}
    <3>1. \A i \in Miss : i - a \in Int
      BY <1>0 DEF Between
    <3>2. \A i \in Miss : Abs(i - a) \in Nat
      BY <3>1, AbsType
    <3> HIDE DEF Miss
    <3> QED
      BY <1>2, <3>2
  <2>2. PICK d \in D : \A e \in D : d <= e
    <3> HIDE DEF D
    <3> QED
      BY <2>1, Least
  <2>3. PICK i \in Miss : \A j \in Miss : Abs(i - a) <= Abs(j - a)
    BY <2>2
  <2>4. i \in Coord /\ i # a /\ line[i] \in S
    BY <2>3 DEF Between
  <2> DEFINE j == IF i > a THEN i - 1 ELSE i + 1
  <2>5. j \in Between(a, c) /\ Abs(j - a) < Abs(i - a) /\ Abs(j - i) = 1
    <3>1. /\ a \in Int /\ c \in Int /\ i \in Int
          /\ (a <= i /\ i <= c) \/ (c <= i /\ i <= a)
      BY <1>0, <2>3, <2>4 DEF Between
    <3>2. j \in Coord /\ ((a <= j /\ j <= c) \/ (c <= j /\ j <= a))
      BY <2>4, <3>1, KAssumption DEF Coord
    <3>3. Abs(j - a) < Abs(i - a) /\ Abs(j - i) = 1
      BY <2>4, <3>1 DEF Abs
    <3> QED
      BY <3>2, <3>3 DEF Between
  <2>6. line[j] \in R
    <3> HIDE DEF j
    <3>1. Abs(j - a) \in Int /\ Abs(i - a) \in Int
      BY <1>0, <2>4, <2>5, AbsType DEF Between
    <3>2. j \notin Miss
      BY <2>3, <2>5, <3>1
    <3> QED
      BY <2>5, <3>2
  <2>7. Adjacent(line[j], line[i])
    BY <2>4, <2>5 DEF Between
  <2>8. line[i] \in R
    BY <2>4, <2>6, <2>7, IsolatedClosed
  <2> QED
    BY <2>3, <2>8
<1> QED
  BY <1>1, <1>2

RowLine(t) == [i \in Coord |-> <<t, i>>]
ColLine(t) == [i \in Coord |-> <<i, t>>]

LEMMA LinesAreLines ==
  ASSUME NEW t \in Coord
  PROVE  /\ RowLine(t) \in [Coord -> Router] /\ ColLine(t) \in [Coord -> Router]
         /\ \A i, j \in Coord : Abs(i - j) = 1 => Adjacent(RowLine(t)[i], RowLine(t)[j])
         /\ \A i, j \in Coord : Abs(i - j) = 1 => Adjacent(ColLine(t)[i], ColLine(t)[j])
<1>1. t \in Int /\ t - t = 0 /\ \A i \in Coord : i \in Int
  BY DEF Coord
<1>2. RowLine(t) \in [Coord -> Router] /\ ColLine(t) \in [Coord -> Router]
  BY DEF RowLine, ColLine, Router
<1>3. ASSUME NEW i \in Coord, NEW j \in Coord, Abs(i - j) = 1
      PROVE  Adjacent(<<t, i>>, <<t, j>>) /\ Adjacent(<<i, t>>, <<j, t>>)
  BY <1>1, <1>3 DEF Adjacent, Row, Col, Abs
<1> QED
  BY <1>2, <1>3 DEF RowLine, ColLine

-----------------------------------------------------------------------------
(* The invariants. *)

ParkingTypeOK ==
  /\ stage \in {"cores", "routers", "done"}
  /\ policy \in {"rpa", "rpc"}
  /\ numOff \in Nat
  /\ offCores \subseteq Drawn \ {FabricManager}
  /\ on \subseteq Router
  /\ stage = "cores" => on = Router
  /\ Router \ offCores \subseteq on
  /\ stage # "cores" /\ policy = "rpc" => pending \subseteq offCores
  /\ stage # "cores" /\ policy = "rpa" => pending \subseteq (SUBSET Router) \ {{}}
  /\ stage = "done" => pending = {}

LEMMA InitTypeOK == ParkingInit => ParkingTypeOK
  BY ParkingAssumption DEF ParkingInit, ParkingTypeOK

LEMMA ComponentType ==
  ASSUME NEW S \in SUBSET Router, NEW r \in S
  PROVE  Component(r, S) \in SUBSET S /\ r \in Component(r, S)
  BY DEF Component

LEMMA PathType ==
  ASSUME NEW r \in Router
  PROVE  PathToManager(r) \subseteq Router
  BY DEF PathToManager

FirstComponent == CHOOSE D \in pending : \A E \in pending : Id(First(D)) <= Id(First(E))

LEMMA FirstComponentIsMember ==
  ASSUME pending \subseteq (SUBSET Router) \ {{}}, pending # {}
  PROVE  FirstComponent \in pending
<1> DEFINE I == {Id(First(D)) : D \in pending}
<1>1. \A D \in pending : First(D) \in Router
  BY FirstIsMember
<1>2. \A D \in pending : Id(First(D)) \in Nat
  BY <1>1, IdType
<1>3. I \in SUBSET Nat /\ I # {}
  BY <1>2
<1>4. PICK i \in I : \A j \in I : i <= j
  <2> HIDE DEF I
  <2> QED
    BY <1>3, Least
<1>5. \E D \in pending : \A E \in pending : Id(First(D)) <= Id(First(E))
  BY <1>4
<1> QED
  BY <1>5 DEF FirstComponent

LEMMA TypeOKStep == ParkingTypeOK /\ [ParkingNext]_parking => ParkingTypeOK'
<1> SUFFICES ASSUME ParkingTypeOK, [ParkingNext]_parking PROVE ParkingTypeOK'
  OBVIOUS
<1> USE DEF ParkingTypeOK
<1>1. CASE ParkCore
  BY <1>1 DEF ParkCore, WithCore
<1>2. CASE CoresParked
  <2>1. CASE policy = "rpa"
    <3>1. on' = Router \ offCores /\ pending' = CutOff(on')
      BY <1>2, <2>1 DEF CoresParked
    <3>2. pending' \subseteq (SUBSET Router) \ {{}}
      BY <3>1, ComponentType DEF CutOff
    <3> QED
      BY <1>2, <2>1, <3>1, <3>2 DEF CoresParked
  <2>2. CASE policy = "rpc"
    BY <1>2, <2>2 DEF CoresParked
  <2> QED
    BY <2>1, <2>2
<1>3. CASE ParkRouter
  <2>1. First(pending) \in pending
    BY <1>3, FirstIsMember DEF ParkRouter, Drawn
  <2>2. on' \in {on, on \ {First(pending)}} /\ pending' \subseteq pending
    BY <1>3 DEF ParkRouter
  <2> QED
    BY <1>3, <2>1, <2>2 DEF ParkRouter
<1>4. CASE ConnectComponent
  <2>1. FirstComponent \in pending
    BY <1>4, FirstComponentIsMember DEF ConnectComponent
  <2>2. PICK r \in FirstComponent : on' = on \cup PathToManager(r)
    BY <1>4 DEF ConnectComponent, FirstComponent
  <2>3. r \in Router
    BY <1>4, <2>1 DEF ConnectComponent
  <2>4. on' \subseteq Router /\ on \subseteq on'
    BY <2>2, <2>3, PathType
  <2>5. pending' \subseteq pending
    BY <1>4 DEF ConnectComponent
  <2> QED
    BY <1>4, <2>4, <2>5 DEF ConnectComponent
<1>5. CASE RoutersParked
  BY <1>5 DEF RoutersParked
<1>6. CASE UNCHANGED parking
  BY <1>6 DEF parking
<1> QED
  BY <1>1, <1>2, <1>3, <1>4, <1>5, <1>6 DEF ParkingNext

(* Conservative parking: everything around a parked router is on. *)
Surrounded == policy = "rpc" => \A r \in Router \ on : Around(r) \subseteq on

LEMMA SurroundedStep ==
  ParkingTypeOK /\ Surrounded /\ [ParkingNext]_parking => Surrounded'
<1> SUFFICES ASSUME ParkingTypeOK, Surrounded, [ParkingNext]_parking, policy' = "rpc",
                    NEW r \in Router \ on'
             PROVE  Around(r) \subseteq on'
  BY DEF Surrounded
<1>0. policy = "rpc"
  BY DEF ParkingNext, ParkCore, CoresParked, ParkRouter, ConnectComponent, RoutersParked, parking
<1>1. CASE on' = on
  BY <1>0, <1>1 DEF Surrounded
<1>2. CASE on' = Router
  BY <1>2
<1>3. CASE ParkRouter /\ on' # on
  <2> DEFINE c == First(pending)
  <2>1. Around(c) \subseteq on /\ on' = on \ {c}
    BY <1>3 DEF ParkRouter
  <2>2. c \in Router
    BY <1>0, <1>3, FirstIsMember DEF ParkRouter, ParkingTypeOK, Drawn
  <2>3. c \notin Around(c)
    BY DEF Around
  <2> HIDE DEF c
  <2>4. CASE r = c
    BY <2>1, <2>3, <2>4
  <2>5. CASE r # c
    <3>1. r \notin on /\ Around(r) \subseteq on
      BY <1>0, <2>1, <2>5 DEF Surrounded
    <3>2. c \notin Around(r)
      BY <2>1, <3>1, AroundSymmetric
    <3> QED
      BY <2>1, <3>1, <3>2
  <2> QED
    BY <2>4, <2>5
<1>4. on' # on => on' = Router \/ ParkRouter
  BY <1>0 DEF ParkingNext, ParkCore, CoresParked, ConnectComponent, RoutersParked, parking
<1> QED
  BY <1>1, <1>2, <1>3, <1>4

(* Aggressive parking: a part of the network that is cut off from the      *)
(* fabric manager holds a component that is still to be connected.         *)
Waits(S) == \E C \in pending : C \subseteq S
CutOffWaits ==
  policy = "rpa" /\ stage # "cores" =>
    \A S \in SUBSET on : S # {} /\ Isolated(S, on) /\ FabricManager \notin S => Waits(S)

(* All routers of a path are connected with the fabric manager. *)
LEMMA PathReachesManager ==
  ASSUME NEW S \in SUBSET Router, NEW R \in SUBSET S, Isolated(R, S),
         NEW r \in Router, PathToManager(r) \subseteq S,
         NEW q \in R, q \in PathToManager(r)
  PROVE  FabricManager \in R
<1> DEFINE fx == Col(FabricManager)
           fy == Row(FabricManager)
<1>0. /\ fx \in Coord /\ fy \in Coord /\ FabricManager = <<fy, fx>>
      /\ Row(r) \in Coord /\ Col(r) \in Coord
      /\ Row(q) \in Coord /\ Col(q) \in Coord /\ q = <<Row(q), Col(q)>>
      /\ \A i \in Coord : i \in Int
  BY ParkingAssumption, RouterType DEF Coord
<1> HIDE DEF fx, fy
<1>1. ASSUME NEW t \in Coord, <<t, fx>> \in R, t \in Between(Row(r), fy)
      PROVE  FabricManager \in R
  <2>1. \A i \in Between(t, fy) : i \in Between(Row(r), fy)
    BY <1>0, <1>1 DEF Between
  <2>2. \A i \in Between(t, fy) : <<i, fx>> \in PathToManager(r)
    BY <1>0, <2>1 DEF PathToManager, Between, Row, Col, Router, fx, fy
  <2>3. \A i \in Between(t, fy) : ColLine(fx)[i] \in S
    BY <2>2 DEF ColLine, Between
  <2>4. ColLine(fx)[t] \in R
    BY <1>1 DEF ColLine
  <2>5. ColLine(fx)[fy] \in R
    BY <1>0, <2>3, <2>4, AlongLine, LinesAreLines
  <2> QED
    BY <1>0, <2>5 DEF ColLine
<1>2. CASE Row(q) = Row(r) /\ Col(q) \in Between(Col(r), fx)
  <2>1. \A i \in Between(Col(q), fx) : i \in Between(Col(r), fx)
    BY <1>0, <1>2 DEF Between
  <2>2. \A i \in Between(Col(q), fx) : <<Row(r), i>> \in PathToManager(r)
    BY <1>0, <2>1 DEF PathToManager, Between, Row, Col, Router, fx
  <2>3. \A i \in Between(Col(q), fx) : RowLine(Row(r))[i] \in S
    BY <2>2 DEF RowLine, Between
  <2>4. RowLine(Row(r))[Col(q)] \in R
    BY <1>0, <1>2 DEF RowLine
  <2>5. RowLine(Row(r))[fx] \in R
    BY <1>0, <2>3, <2>4, AlongLine, LinesAreLines
  <2>6. <<Row(r), fx>> \in R /\ Row(r) \in Between(Row(r), fy)
    BY <1>0, <2>5 DEF RowLine, Between
  <2> QED
    BY <1>0, <1>1, <2>6
<1>3. CASE Col(q) = fx /\ Row(q) \in Between(Row(r), fy)
  BY <1>0, <1>1, <1>3
<1> QED
  BY <1>2, <1>3 DEF PathToManager, fx, fy

LEMMA RouterOnPath ==
  ASSUME NEW r \in Router
  PROVE  r \in PathToManager(r)
  BY ParkingAssumption, RouterType DEF PathToManager, Between, Coord

LEMMA CutOffStart ==
  ASSUME NEW S \in SUBSET Router, NEW R \in SUBSET S, R # {}, Isolated(R, S), FabricManager \notin R
  PROVE  \E C \in CutOff(S) : C \subseteq R
<1>1. PICK r \in R : TRUE
  OBVIOUS
<1>2. Component(r, S) \subseteq R
  BY DEF Component
<1> QED
  BY <1>2 DEF CutOff

LEMMA CutOffWaitsStep ==
  ParkingTypeOK /\ CutOffWaits /\ [ParkingNext]_parking => CutOffWaits'
<1> SUFFICES ASSUME ParkingTypeOK, CutOffWaits, [ParkingNext]_parking,
                    policy' = "rpa", stage' # "cores",
                    NEW S \in SUBSET on', S # {}, Isolated(S, on'), FabricManager \notin S
             PROVE  \E C \in pending' : C \subseteq S
  BY DEF CutOffWaits, Waits
<1>1. CASE CoresParked
  <2>1. on' = Router \ offCores /\ pending' = CutOff(on')
    BY <1>1 DEF CoresParked
  <2> QED
    BY <2>1, CutOffStart
<1>2. CASE ConnectComponent
  <2>0. policy = "rpa" /\ stage = "routers" /\ pending # {} /\ on \subseteq Router
    BY <1>2 DEF ConnectComponent, ParkingTypeOK
  <2>1. FirstComponent \in pending /\ pending \subseteq SUBSET Router
    BY <2>0, FirstComponentIsMember DEF ParkingTypeOK
  <2>2. PICK r \in FirstComponent : on' = on \cup PathToManager(r)
    BY <1>2 DEF ConnectComponent, FirstComponent
  <2>3. r \in Router /\ on' \subseteq Router
    BY <2>0, <2>1, <2>2, PathType
  <2>4. \A q \in PathToManager(r) : q \notin S
    BY <2>2, <2>3, PathReachesManager
  <2>5. S \subseteq on /\ Isolated(S, on)
    BY <2>2, <2>4 DEF Isolated
  <2>6. PICK C \in pending : C \subseteq S
    BY <2>0, <2>5 DEF CutOffWaits, Waits
  <2>7. C # FirstComponent
    BY <2>3, <2>4, <2>6, RouterOnPath
  <2>8. pending' = pending \ {FirstComponent}
    BY <1>2 DEF ConnectComponent, FirstComponent
  <2> QED
    BY <2>6, <2>7, <2>8
<1>3. CASE RoutersParked \/ UNCHANGED parking
  <2>1. policy = "rpa" /\ stage # "cores" /\ on' = on /\ pending' = pending
    BY <1>3 DEF RoutersParked, parking
  <2> QED
    BY <2>1 DEF CutOffWaits, Waits
<1> QED
  BY <1>1, <1>2, <1>3 DEF ParkingNext, ParkCore, ParkRouter

(* When conservative parking is done, a part of the network holds a router *)
(* of the row below if it holds one of a row: the router below is on, or   *)
(* everything around it is.                                                *)
LEMMA Downward ==
  ASSUME ParkingTypeOK, Surrounded, policy = "rpc",
         NEW R \in SUBSET on, Isolated(R, on), NEW r \in R, Row(r) # K - 1
  PROVE  \E q \in R : Row(q) = Row(r) + 1
<1> DEFINE y == Row(r)
           x == Col(r)
           z == IF x = 0 THEN 1 ELSE x - 1
<1>0. /\ y \in Coord /\ x \in Coord /\ r = <<y, x>> /\ y \in Int /\ x \in Int
      /\ on \subseteq Router /\ r \in on
  BY RouterType DEF ParkingTypeOK
<1> HIDE DEF y, x
<1>1. y + 1 \in Coord /\ z \in Coord /\ z \in Int /\ Abs(z - x) = 1
  <2>1. y # K - 1
    BY DEF y
  <2> QED
    BY <1>0, <2>1, KAssumption DEF Coord, Abs
<1> HIDE DEF z
<1> DEFINE below == <<y + 1, x>>
           side == <<y, z>>
           diag == <<y + 1, z>>
<1>2. below \in Router /\ side \in Router /\ diag \in Router
  BY <1>0, <1>1 DEF Router
<1>3. CASE below \in on
  <2>1. Adjacent(r, below)
    <3>1. Row(r) = y /\ Col(r) = x /\ Row(below) = y + 1 /\ Col(below) = x
      BY <1>0 DEF Row, Col
    <3>2. Abs(y - (y + 1)) = 1 /\ Abs(x - x) = 0
      BY <1>0, AbsOfDifference
    <3> HIDE DEF below
    <3> QED
      BY <3>1, <3>2 DEF Adjacent
  <2>2. below \in R
    BY <1>0, <1>3, <2>1, IsolatedClosed
  <2> QED
    BY <2>2 DEF Row, y
<1>4. CASE below \notin on
  <2>1. Around(below) \subseteq on
    BY <1>2, <1>4 DEF Surrounded
  <2>2. x # z /\ y # y + 1 /\ Abs(x - z) = 1
    BY <1>0, <1>1 DEF Abs
  <2>3. side \in Around(below) /\ diag \in Around(below)
    BY <1>0, <1>1, <1>2, <2>2 DEF Around, Row, Col, Abs
  <2>4. Adjacent(r, side) /\ Adjacent(side, diag)
    <3>1. Abs(y - y) = 0 /\ Abs(z - z) = 0 /\ Abs(y - (y + 1)) = 1
      BY <1>0, <1>1, AbsOfDifference
    <3>3. Row(r) = y /\ Col(r) = x
      BY <1>0 DEF Row, Col
    <3>4. Row(side) = y /\ Col(side) = z /\ Row(diag) = y + 1 /\ Col(diag) = z
      BY DEF Row, Col
    <3> HIDE DEF side, diag
    <3> QED
      BY <2>2, <3>1, <3>3, <3>4 DEF Adjacent
  <2>5. side \in R
    BY <1>0, <2>1, <2>3, <2>4, IsolatedClosed
  <2>6. diag \in R
    BY <1>0, <2>1, <2>3, <2>4, <2>5, IsolatedClosed
  <2> QED
    BY <2>6 DEF Row, y
<1> QED
  BY <1>3, <1>4

LEMMA HoldsBottomRow ==
  ASSUME ParkingTypeOK, Surrounded, policy = "rpc",
         NEW R \in SUBSET on, R # {}, Isolated(R, on)
  PROVE  <<K - 1, 0>> \in R
<1> DEFINE D == {K - 1 - Row(r) : r \in R}
<1>0. on \subseteq Router /\ \A r \in R : Row(r) \in Coord
  BY RouterType DEF ParkingTypeOK
<1>1. D \in SUBSET Nat /\ D # {}
  BY <1>0, KAssumption DEF Coord
<1>2. PICK d \in D : \A e \in D : d <= e
  <2> HIDE DEF D
  <2> QED
    BY <1>1, Least
<1>3. PICK r \in R : \A q \in R : K - 1 - Row(r) <= K - 1 - Row(q)
  BY <1>2
<1>4. Row(r) = K - 1
  <2> SUFFICES ASSUME Row(r) # K - 1 PROVE FALSE
    OBVIOUS
  <2>1. PICK q \in R : Row(q) = Row(r) + 1
    BY Downward
  <2>2. Row(r) \in Int /\ K \in Int
    BY <1>0, KAssumption DEF Coord
  <2> QED
    BY <1>3, <2>1, <2>2
<1>5. /\ r = <<K - 1, Col(r)>> /\ Col(r) \in Coord /\ K - 1 \in Coord /\ 0 \in Coord
      /\ \A i \in Coord : <<K - 1, i>> \in Router
  <2>1. r = <<K - 1, Col(r)>> /\ Col(r) \in Coord
    BY <1>0, <1>4, RouterType
  <2>2. K - 1 \in Coord /\ 0 \in Coord
    BY KAssumption DEF Coord
  <2> QED
    BY <2>1, <2>2 DEF Router
<1>6. \A i \in Coord : RowLine(K - 1)[i] \in on
  BY <1>5 DEF RowLine, ParkingTypeOK, Drawn, BottomRow, Row
<1>7. RowLine(K - 1)[Col(r)] \in R
  BY <1>5 DEF RowLine
<1>8. \A i \in Between(Col(r), 0) : RowLine(K - 1)[i] \in on
  BY <1>6 DEF Between
<1>9. RowLine(K - 1)[0] \in R
  BY <1>0, <1>5, <1>7, <1>8, AlongLine, LinesAreLines
<1> QED
  BY <1>5, <1>9 DEF RowLine

-----------------------------------------------------------------------------
(* The theorems. *)

ParkingInv == ParkingTypeOK /\ Surrounded /\ CutOffWaits

THEOREM ParkingInvariant == ParkingSpec => []ParkingInv
<1>1. ParkingInit => ParkingInv
  BY InitTypeOK DEF ParkingInv, ParkingInit, Surrounded, CutOffWaits
<1>2. ParkingInv /\ [ParkingNext]_parking => ParkingInv'
  BY TypeOKStep, SurroundedStep, CutOffWaitsStep DEF ParkingInv
<1> QED
  BY <1>1, <1>2, PTL DEF ParkingSpec

LEMMA InvConnected == ParkingInv => Connected
<1> SUFFICES ASSUME ParkingInv, stage = "done",
                    NEW S \in SUBSET on, Isolated(S, on), S # {}, S # on
             PROVE  FALSE
  BY DEF Connected
<1>0. on \subseteq Router /\ policy \in {"rpa", "rpc"} /\ pending = {}
  BY DEF ParkingInv, ParkingTypeOK
<1>1. on \ S \in SUBSET on /\ on \ S # {} /\ Isolated(on \ S, on)
  BY <1>0, RestIsIsolated
<1>2. CASE policy = "rpc"
  <2>1. <<K - 1, 0>> \in S
    BY <1>2, HoldsBottomRow DEF ParkingInv
  <2>2. <<K - 1, 0>> \in on \ S
    BY <1>1, <1>2, HoldsBottomRow DEF ParkingInv
  <2> QED
    BY <2>1, <2>2
<1>3. CASE policy = "rpa"
  <2>1. ASSUME NEW R \in SUBSET on, R # {}, Isolated(R, on)
        PROVE  FabricManager \in R
    BY <1>0, <1>3, <2>1 DEF ParkingInv, CutOffWaits, Waits
  <2> QED
    BY <1>1, <2>1
<1> QED
  BY <1>0, <1>2, <1>3

(* No node whose core is on loses its router, and the fabric manager stays *)
(* on (network.cpp:277-463).                                               *)
THEOREM CoresKeepRouters == ParkingSpec => []CoresHaveRouters
<1>1. ParkingInv => CoresHaveRouters
  BY DEF ParkingInv, ParkingTypeOK, CoresHaveRouters
<1> QED
  BY <1>1, ParkingInvariant, PTL

(* Conservative parking never parks two of nine routers in a square.       *)
THEOREM ParkedStayApart == ParkingSpec => []ParkedApart
<1>1. ParkingInv => ParkedApart
  <2> SUFFICES ASSUME ParkingInv, policy = "rpc",
                      NEW r \in Router \ on, NEW s \in Router \ on, r # s,
                      ~(Abs(Row(r) - Row(s)) >= 2), ~(Abs(Col(r) - Col(s)) >= 2)
               PROVE  FALSE
    BY DEF ParkedApart
  <2>1. Row(r) \in Int /\ Row(s) \in Int /\ Col(r) \in Int /\ Col(s) \in Int
    BY RouterType
  <2>2. s \in Around(r)
    BY <2>1 DEF Around, Abs
  <2> QED
    BY <2>2 DEF ParkingInv, Surrounded
<1> QED
  BY <1>1, ParkingInvariant, PTL

(* Whatever cores were drawn, and under both policies, the routers that    *)
(* are on form one network when the tables are built.                      *)
THEOREM NetworkConnected == ParkingSpec => []Connected
<1> QED
  BY InvConnected, ParkingInvariant, PTL

(* The fabric manager is drawn in vain: if more cores have to be parked    *)
(* than the other cores outside the bottom row, the loop of network.cpp:   *)
(* 245-257 never ends.                                                     *)
THEOREM OverfullNeverEnds ==
  ParkingSpec /\ numOff > Cardinality(Drawn \ {FabricManager}) => [](stage = "cores")
<1> DEFINE Over == numOff > Cardinality(Drawn \ {FabricManager}) /\ stage = "cores"
<1>0. IsFiniteSet(Drawn \ {FabricManager})
  <2>1. IsFiniteSet(Coord)
    BY FS_Interval, KAssumption DEF Coord
  <2>2. IsFiniteSet(Router)
    BY <2>1, FS_Product DEF Router
  <2> QED
    BY <2>2, FS_Subset DEF Drawn
<1>1. ParkingInit /\ numOff > Cardinality(Drawn \ {FabricManager}) => Over
  BY DEF ParkingInit
<1>2. ParkingInv /\ Over /\ [ParkingNext]_parking => Over'
  <2> SUFFICES ASSUME ParkingInv, Over, [ParkingNext]_parking PROVE Over'
    OBVIOUS
  <2>1. numOff' = numOff
    BY DEF ParkingNext, ParkCore, CoresParked, ParkRouter, ConnectComponent,
           RoutersParked, parking
  <2>2. Cardinality(offCores) <= Cardinality(Drawn \ {FabricManager})
    BY <1>0, FS_Subset DEF ParkingInv, ParkingTypeOK
  <2>3. Cardinality(offCores) \in Nat /\ Cardinality(Drawn \ {FabricManager}) \in Nat
    BY <1>0, FS_Subset, FS_CardinalityType DEF ParkingInv, ParkingTypeOK
  <2>4. numOff \in Nat
    BY DEF ParkingInv, ParkingTypeOK
  <2>5. ~CoresParked
    BY <2>2, <2>3, <2>4 DEF CoresParked
  <2>6. stage' = "cores"
    BY <2>5 DEF ParkingNext, ParkCore, ParkRouter, ConnectComponent, RoutersParked, parking
  <2> QED
    BY <2>1, <2>6
<1>3. Over => stage = "cores"
  OBVIOUS
<1> QED
  BY <1>1, <1>2, <1>3, ParkingInvariant, PTL DEF ParkingSpec
=============================================================================
