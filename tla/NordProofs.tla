----------------------------- MODULE NordProofs -----------------------------
(***************************************************************************)
(* The bypass ring is one cycle through every router of a mesh of even     *)
(* size, and the escape VCs on it are taken in an order, whichever routers *)
(* are off.                                                                *)
(***************************************************************************)
EXTENDS NordRouting, TLAPS

(* Rows and columns are numbers below K, and a pair of them is a router.   *)
LEMMA RouterRowCol ==
  /\ K \in Nat /\ K >= 4
  /\ \A r \in Router : Row(r) \in 0 .. K - 1 /\ Col(r) \in 0 .. K - 1 /\ r = <<Row(r), Col(r)>>
  /\ \A i, j \in 0 .. K - 1 : <<i, j>> \in Router /\ Row(<<i, j>>) = i /\ Col(<<i, j>>) = j
BY KAssumption, EvenAssumption DEF Router, Coord, Row, Col

(* A block of the ring's numbers per column: the blocks of two columns do  *)
(* not overlap, and the first begins where the top row ends.               *)
LEMMA Blocks ==
  ASSUME NEW c \in 0 .. K - 1
  PROVE  /\ (K - c) * (K - 1) \in Nat
         /\ (K - c) * (K - 1) >= K - 1
         /\ (K - c) * (K - 1) <= K * (K - 1)
         /\ \A d \in 0 .. K - 1 : c < d => (K - d) * (K - 1) + (K - 1) <= (K - c) * (K - 1)
<1>1. K \in Nat /\ K >= 4 BY RouterRowCol
<1> DEFINE m == K - 1
<1>2. m \in Nat /\ m >= 3 BY <1>1
<1>3. \A x, y \in Nat : x >= y => x * m >= y * m BY <1>2, SMT
<1>4. \A x \in Nat : x * m \in Nat BY <1>2, SMT
<1>5. 1 * m = m BY <1>2
<1>6. ASSUME NEW d \in 0 .. K - 1, c < d PROVE (K - d) * m + m <= (K - c) * m
  <2>1. K - d + 1 \in Nat /\ K - c \in Nat /\ K - c >= K - d + 1 BY <1>1, <1>6
  <2>2. (K - c) * m >= (K - d + 1) * m BY <2>1, <1>3
  <2>3. (K - d + 1) * m = (K - d) * m + m
    <3>1. \A x \in Int : (x + 1) * m = x * m + m BY <1>2, SMT
    <3>2. K - d \in Int BY <1>1
    <3> QED BY <3>1, <3>2
  <2>4. (K - c) * m \in Nat /\ (K - d) * m \in Nat
    <3>1. K - d \in Nat BY <1>1
    <3> QED BY <3>1, <2>1, <1>4
  <2> HIDE DEF m
  <2> QED BY <2>2, <2>3, <2>4, <1>2
<1>7. K - c \in Nat /\ K - c >= 1 /\ K - c <= K BY <1>1
<1>8. (K - c) * m >= 1 * m /\ K * m >= (K - c) * m BY <1>7, <1>1, <1>3
<1>9. (K - c) * m \in Nat BY <1>7, <1>4
<1> QED BY <1>5, <1>6, <1>8, <1>9

Block(c) == (K - c) * (K - 1)   \* where the numbers of a column begin

(* The blocks follow each other from the last column to the first.         *)
LEMMA BlockFacts ==
  /\ \A c \in 0 .. K - 1 : Block(c) \in Nat /\ Block(c) >= K - 1 /\ Block(c) <= Block(0)
  /\ \A c, d \in 0 .. K - 1 : c < d => Block(d) + (K - 1) <= Block(c)
  /\ \A c \in 1 .. K - 1 : Block(c - 1) = Block(c) + (K - 1)
  /\ Block(K - 1) = K - 1
  /\ K * K - 1 = Block(0) + (K - 1)
<1>1. K \in Nat /\ K >= 4 BY RouterRowCol
<1> DEFINE m == K - 1
<1>2. m \in Nat /\ \A x \in Int : (x + 1) * m = x * m + m BY <1>1, SMT
<1>3. \A c \in 0 .. K - 1 : Block(c) \in Nat /\ Block(c) >= K - 1 /\ Block(c) <= Block(0)
  BY <1>1, Blocks DEF Block
<1>4. \A c, d \in 0 .. K - 1 : c < d => Block(d) + (K - 1) <= Block(c)
  BY <1>1, Blocks DEF Block
<1>5. ASSUME NEW c \in 1 .. K - 1 PROVE Block(c - 1) = Block(c) + (K - 1)
  <2>1. K - c \in Int /\ K - (c - 1) = (K - c) + 1 BY <1>1
  <2>2. ((K - c) + 1) * m = (K - c) * m + m BY <1>2, <2>1
  <2> QED BY <2>1, <2>2 DEF Block
<1>6. Block(K - 1) = K - 1
  <2>1. K - (K - 1) = 1 /\ 1 * m = m BY <1>1
  <2> QED BY <2>1 DEF Block
<1>7. K * K - 1 = Block(0) + (K - 1)
  <2>1. K * (K - 1) = K * K - K BY <1>1, SMT
  <2>2. K - 0 = K /\ K * K \in Nat BY <1>1, SMT
  <2> QED BY <1>1, <2>1, <2>2 DEF Block
<1> QED BY <1>3, <1>4, <1>5, <1>6, <1>7

(* Parity of the columns: the last column is walked down, and the one to   *)
(* the left of a column is walked the other way.                           *)
LEMMA Parity ==
  /\ (K - 1) % 2 = 1
  /\ 0 % 2 = 0
  /\ \A c \in 0 .. K - 1 : c % 2 \in {0, 1}
  /\ \A c \in 1 .. K - 1 : (c - 1) % 2 = 1 - (c % 2)
<1>1. PICK h \in 0 .. K : K = 2 * h BY EvenAssumption
<1>2. K \in Nat /\ K >= 4 BY RouterRowCol
<1>3. (K - 1) % 2 = 1 BY <1>1, <1>2
<1>4. \A c \in 0 .. K - 1 : c % 2 \in {0, 1} BY <1>2
<1>5. \A c \in 1 .. K - 1 : (c - 1) % 2 = 1 - (c % 2) BY <1>2
<1> QED BY <1>3, <1>4, <1>5

(* The place within its column's block.                                    *)
Place(r) == IF Down(r) THEN Row(r) ELSE K - Row(r)

(* A router's number lies in the block of its column, or in the top row.   *)
LEMMA RingIdBlock ==
  ASSUME NEW r \in Router
  PROVE  /\ Row(r) = 0 => RingId(r) = Col(r)
         /\ Row(r) # 0 => RingId(r) = Block(Col(r)) + Place(r) /\ Place(r) \in 1 .. K - 1
         /\ RingId(r) \in 0 .. K * K - 1
<1>1. /\ K \in Nat /\ K >= 4 /\ Row(r) \in 0 .. K - 1 /\ Col(r) \in 0 .. K - 1
  BY RouterRowCol
<1>2. Place(r) \in Int /\ (Row(r) # 0 => Place(r) \in 1 .. K - 1) BY <1>1 DEF Place
<1>3. RingId(r) = IF Row(r) = 0 THEN Col(r) ELSE Block(Col(r)) + Place(r)
  BY DEF RingId, Block, Place
<1>4. /\ Block(Col(r)) \in Nat /\ Block(0) \in Nat /\ Block(Col(r)) <= Block(0)
      /\ K * K - 1 = Block(0) + (K - 1)
  BY <1>1, BlockFacts
<1> QED BY <1>1, <1>2, <1>3, <1>4

(* No two routers have the same number on the ring.                        *)
LEMMA RingIdInjective ==
  ASSUME NEW r \in Router, NEW s \in Router, RingId(r) = RingId(s)
  PROVE  r = s
<1>1. /\ K \in Nat /\ K >= 4
      /\ Row(r) \in 0 .. K - 1 /\ Col(r) \in 0 .. K - 1 /\ r = <<Row(r), Col(r)>>
      /\ Row(s) \in 0 .. K - 1 /\ Col(s) \in 0 .. K - 1 /\ s = <<Row(s), Col(s)>>
  BY RouterRowCol
<1>2. /\ Block(Col(r)) \in Nat /\ Block(Col(r)) >= K - 1
      /\ Block(Col(s)) \in Nat /\ Block(Col(s)) >= K - 1
      /\ Col(r) < Col(s) => Block(Col(s)) + (K - 1) <= Block(Col(r))
      /\ Col(s) < Col(r) => Block(Col(r)) + (K - 1) <= Block(Col(s))
  BY <1>1, BlockFacts
<1>3. /\ Row(r) = 0 => RingId(r) = Col(r)
      /\ Row(r) # 0 => RingId(r) = Block(Col(r)) + Place(r) /\ Place(r) \in 1 .. K - 1
      /\ Row(s) = 0 => RingId(s) = Col(s)
      /\ Row(s) # 0 => RingId(s) = Block(Col(s)) + Place(s) /\ Place(s) \in 1 .. K - 1
  BY RingIdBlock
<1>4. Row(r) = 0 <=> Row(s) = 0 BY <1>1, <1>2, <1>3
<1>5. Col(r) = Col(s)
  <2>1. CASE Row(r) = 0 BY <2>1, <1>3, <1>4
  <2>2. CASE Row(r) # 0
    <3>1. ~(Col(r) < Col(s)) BY <2>2, <1>1, <1>2, <1>3, <1>4
    <3>2. ~(Col(s) < Col(r)) BY <2>2, <1>1, <1>2, <1>3, <1>4
    <3> QED BY <3>1, <3>2, <1>1
  <2> QED BY <2>1, <2>2
<1>6. Row(r) = Row(s)
  <2>1. CASE Row(r) = 0 BY <2>1, <1>4
  <2>2. CASE Row(r) # 0
    <3>1. Place(r) = Place(s) BY <2>2, <1>2, <1>3, <1>4, <1>5
    <3> QED BY <3>1, <1>1, <1>5 DEF Place, Down
  <2> QED BY <2>1, <2>2
<1> QED BY <1>1, <1>5, <1>6

-----------------------------------------------------------------------------
(* One hop along the ring: it stays in the mesh, reaches the next router   *)
(* by the ring input of that one, and the numbers follow each other; the   *)
(* last router leads to the first.                                         *)
RingHop(r) ==
  /\ RingOut(r) \in MeshPorts(r)
  /\ RingNext(r) \in Router
  /\ Opp(RingOut(r)) = RingIn(RingNext(r))
  /\ RingId(RingNext(r)) = IF RingId(r) = K * K - 1 THEN 0 ELSE RingId(r) + 1

(* The ring leads from every router through all of them: with the numbers  *)
(* being distinct (RingIdInjective), it is one cycle.                      *)
THEOREM RingIsCycle == \A r \in Router : RingHop(r)
<1> SUFFICES ASSUME NEW r \in Router PROVE RingHop(r)
  OBVIOUS
<1> DEFINE row == Row(r)
           col == Col(r)
<1>1. /\ K \in Nat /\ K >= 4 /\ row \in 0 .. K - 1 /\ col \in 0 .. K - 1 /\ r = <<row, col>>
      /\ \A i, j \in 0 .. K - 1 : <<i, j>> \in Router /\ Row(<<i, j>>) = i /\ Col(<<i, j>>) = j
  BY RouterRowCol
<1>2. /\ (K - 1) % 2 = 1 /\ 0 % 2 = 0 /\ col % 2 \in {0, 1}
      /\ (col > 0 => (col - 1) % 2 = 1 - (col % 2))
  BY <1>1, Parity
<1>3. /\ Block(col) \in Nat /\ Block(col) >= K - 1 /\ Block(0) \in Nat
      /\ (col > 0 => Block(col - 1) = Block(col) + (K - 1) /\ Block(col) + (K - 1) <= Block(0))
      /\ Block(K - 1) = K - 1
      /\ K * K - 1 = Block(0) + (K - 1)
  BY <1>1, BlockFacts
<1>4. /\ \A i \in 1 .. K - 1, j \in 0 .. K - 1 :
            RingId(<<i, j>>) = Block(j) + (IF j % 2 = 1 THEN i ELSE K - i)
      /\ \A j \in 0 .. K - 1 : RingId(<<0, j>>) = j
  <2>1. ASSUME NEW i \in 1 .. K - 1, NEW j \in 0 .. K - 1
        PROVE  RingId(<<i, j>>) = Block(j) + (IF j % 2 = 1 THEN i ELSE K - i)
    <3>1. <<i, j>> \in Router /\ Row(<<i, j>>) = i /\ Col(<<i, j>>) = j /\ i # 0 BY <1>1
    <3>2. RingId(<<i, j>>) = Block(j) + Place(<<i, j>>) BY <3>1, RingIdBlock
    <3> QED BY <3>1, <3>2 DEF Place, Down
  <2>2. ASSUME NEW j \in 0 .. K - 1 PROVE RingId(<<0, j>>) = j
    <3>1. <<0, j>> \in Router /\ Row(<<0, j>>) = 0 /\ Col(<<0, j>>) = j BY <1>1
    <3> QED BY <3>1, RingIdBlock
  <2> QED BY <2>1, <2>2
<1>5. Down(r) <=> col % 2 = 1 BY DEF Down
<1>6. r[1] = row /\ r[2] = col BY <1>1
<1>7. CASE row = 0 /\ col < K - 1
  <2>1. RingOut(r) = East /\ ~Boundary(r, East)
    BY <1>7, <1>1, <1>2, <1>5, <1>6 DEF RingOut, Boundary, East, West, South, North
  <2>2. RingNext(r) = <<0, col + 1>>
    BY <1>7, <1>1, <1>2, <1>5, <1>6, <2>1 DEF RingNext, Nbr, Succ, Pred, East, West, South, North
  <2>3. RingIn(<<0, col + 1>>) = West
    BY <1>7, <1>1, <1>2, <1>5 DEF RingIn, Down, East, West, South, North
  <2>4. RingId(r) = col /\ RingId(<<0, col + 1>>) = col + 1
    BY <1>7, <1>1, <1>2, <1>3, <1>4, <1>5
  <2>5. <<0, col + 1>> \in Router BY <1>7, <1>1, <1>2, <1>5
  <2>6. RingId(<<0, col + 1>>) = IF RingId(r) = K * K - 1 THEN 0 ELSE RingId(r) + 1
    BY <1>7, <1>1, <1>2, <1>3, <1>5, <2>4
  <2>7. East \in Port /\ Opp(East) = West BY DEF Opp, Port, East, West, South, North
  <2> QED BY <2>1, <2>2, <2>3, <2>5, <2>6, <2>7 DEF RingHop, MeshPorts
<1>8. CASE row = 0 /\ col = K - 1
  <2>1. RingOut(r) = South /\ ~Boundary(r, South)
    BY <1>8, <1>1, <1>2, <1>5, <1>6 DEF RingOut, Boundary, East, West, South, North
  <2>2. RingNext(r) = <<1, K - 1>>
    BY <1>8, <1>1, <1>2, <1>5, <1>6, <2>1 DEF RingNext, Nbr, Succ, Pred, East, West, South, North
  <2>3. RingIn(<<1, K - 1>>) = North
    BY <1>8, <1>1, <1>2, <1>5 DEF RingIn, Down, East, West, South, North
  <2>4. RingId(r) = K - 1 /\ RingId(<<1, K - 1>>) = K
    BY <1>8, <1>1, <1>2, <1>3, <1>4, <1>5
  <2>5. <<1, K - 1>> \in Router BY <1>8, <1>1, <1>2, <1>5
  <2>6. RingId(<<1, K - 1>>) = IF RingId(r) = K * K - 1 THEN 0 ELSE RingId(r) + 1
    BY <1>8, <1>1, <1>2, <1>3, <1>5, <2>4
  <2>7. South \in Port /\ Opp(South) = North BY DEF Opp, Port, East, West, South, North
  <2> QED BY <2>1, <2>2, <2>3, <2>5, <2>6, <2>7 DEF RingHop, MeshPorts
<1>9. CASE row # 0 /\ Down(r) /\ row < K - 1
  <2>1. RingOut(r) = South /\ ~Boundary(r, South)
    BY <1>9, <1>1, <1>2, <1>5, <1>6 DEF RingOut, Boundary, East, West, South, North
  <2>2. RingNext(r) = <<row + 1, col>>
    BY <1>9, <1>1, <1>2, <1>5, <1>6, <2>1 DEF RingNext, Nbr, Succ, Pred, East, West, South, North
  <2>3. RingIn(<<row + 1, col>>) = North
    BY <1>9, <1>1, <1>2, <1>5 DEF RingIn, Down, East, West, South, North
  <2>4. RingId(r) = Block(col) + row /\ RingId(<<row + 1, col>>) = Block(col) + row + 1
    BY <1>9, <1>1, <1>2, <1>3, <1>4, <1>5
  <2>5. <<row + 1, col>> \in Router BY <1>9, <1>1, <1>2, <1>5
  <2>6. RingId(<<row + 1, col>>) = IF RingId(r) = K * K - 1 THEN 0 ELSE RingId(r) + 1
    BY <1>9, <1>1, <1>2, <1>3, <1>5, <2>4
  <2>7. South \in Port /\ Opp(South) = North BY DEF Opp, Port, East, West, South, North
  <2> QED BY <2>1, <2>2, <2>3, <2>5, <2>6, <2>7 DEF RingHop, MeshPorts
<1>10. CASE row # 0 /\ Down(r) /\ row = K - 1
  <2>1. RingOut(r) = West /\ ~Boundary(r, West)
    BY <1>10, <1>1, <1>2, <1>5, <1>6 DEF RingOut, Boundary, East, West, South, North
  <2>2. RingNext(r) = <<K - 1, col - 1>>
    BY <1>10, <1>1, <1>2, <1>5, <1>6, <2>1 DEF RingNext, Nbr, Succ, Pred, East, West, South, North
  <2>3. RingIn(<<K - 1, col - 1>>) = East
    BY <1>10, <1>1, <1>2, <1>5 DEF RingIn, Down, East, West, South, North
  <2>4. RingId(r) = Block(col) + (K - 1) /\ RingId(<<K - 1, col - 1>>) = Block(col) + (K - 1) + 1
    BY <1>10, <1>1, <1>2, <1>3, <1>4, <1>5
  <2>5. <<K - 1, col - 1>> \in Router BY <1>10, <1>1, <1>2, <1>5
  <2>6. RingId(<<K - 1, col - 1>>) = IF RingId(r) = K * K - 1 THEN 0 ELSE RingId(r) + 1
    BY <1>10, <1>1, <1>2, <1>3, <1>5, <2>4
  <2>7. West \in Port /\ Opp(West) = East BY DEF Opp, Port, East, West, South, North
  <2> QED BY <2>1, <2>2, <2>3, <2>5, <2>6, <2>7 DEF RingHop, MeshPorts
<1>11. CASE row = 1 /\ ~Down(r) /\ col > 0
  <2>1. RingOut(r) = West /\ ~Boundary(r, West)
    BY <1>11, <1>1, <1>2, <1>5, <1>6 DEF RingOut, Boundary, East, West, South, North
  <2>2. RingNext(r) = <<1, col - 1>>
    BY <1>11, <1>1, <1>2, <1>5, <1>6, <2>1 DEF RingNext, Nbr, Succ, Pred, East, West, South, North
  <2>3. RingIn(<<1, col - 1>>) = East
    BY <1>11, <1>1, <1>2, <1>5 DEF RingIn, Down, East, West, South, North
  <2>4. RingId(r) = Block(col) + (K - 1) /\ RingId(<<1, col - 1>>) = Block(col) + (K - 1) + 1
    BY <1>11, <1>1, <1>2, <1>3, <1>4, <1>5
  <2>5. <<1, col - 1>> \in Router BY <1>11, <1>1, <1>2, <1>5
  <2>6. RingId(<<1, col - 1>>) = IF RingId(r) = K * K - 1 THEN 0 ELSE RingId(r) + 1
    BY <1>11, <1>1, <1>2, <1>3, <1>5, <2>4
  <2>7. West \in Port /\ Opp(West) = East BY DEF Opp, Port, East, West, South, North
  <2> QED BY <2>1, <2>2, <2>3, <2>5, <2>6, <2>7 DEF RingHop, MeshPorts
<1>12. CASE row > 1 /\ ~Down(r)
  <2>1. RingOut(r) = North /\ ~Boundary(r, North)
    BY <1>12, <1>1, <1>2, <1>5, <1>6 DEF RingOut, Boundary, East, West, South, North
  <2>2. RingNext(r) = <<row - 1, col>>
    BY <1>12, <1>1, <1>2, <1>5, <1>6, <2>1 DEF RingNext, Nbr, Succ, Pred, East, West, South, North
  <2>3. RingIn(<<row - 1, col>>) = South
    BY <1>12, <1>1, <1>2, <1>5 DEF RingIn, Down, East, West, South, North
  <2>4. RingId(r) = Block(col) + (K - row) /\ RingId(<<row - 1, col>>) = Block(col) + (K - row) + 1
    BY <1>12, <1>1, <1>2, <1>3, <1>4, <1>5
  <2>5. <<row - 1, col>> \in Router BY <1>12, <1>1, <1>2, <1>5
  <2>6. RingId(<<row - 1, col>>) = IF RingId(r) = K * K - 1 THEN 0 ELSE RingId(r) + 1
    BY <1>12, <1>1, <1>2, <1>3, <1>5, <2>4
  <2>7. North \in Port /\ Opp(North) = South BY DEF Opp, Port, East, West, South, North
  <2> QED BY <2>1, <2>2, <2>3, <2>5, <2>6, <2>7 DEF RingHop, MeshPorts
<1>13. CASE row = 1 /\ ~Down(r) /\ col = 0
  <2>1. RingOut(r) = North /\ ~Boundary(r, North)
    BY <1>13, <1>1, <1>2, <1>5, <1>6 DEF RingOut, Boundary, East, West, South, North
  <2>2. RingNext(r) = <<0, 0>>
    BY <1>13, <1>1, <1>2, <1>5, <1>6, <2>1 DEF RingNext, Nbr, Succ, Pred, East, West, South, North
  <2>3. RingIn(<<0, 0>>) = South
    BY <1>13, <1>1, <1>2, <1>5 DEF RingIn, Down, East, West, South, North
  <2>4. RingId(r) = K * K - 1 /\ RingId(<<0, 0>>) = 0
    BY <1>13, <1>1, <1>2, <1>3, <1>4, <1>5
  <2>5. <<0, 0>> \in Router BY <1>13, <1>1, <1>2, <1>5
  <2>6. RingId(<<0, 0>>) = IF RingId(r) = K * K - 1 THEN 0 ELSE RingId(r) + 1
    BY <1>13, <1>1, <1>2, <1>3, <1>5, <2>4
  <2>7. North \in Port /\ Opp(North) = South BY DEF Opp, Port, East, West, South, North
  <2> QED BY <2>1, <2>2, <2>3, <2>5, <2>6, <2>7 DEF RingHop, MeshPorts
<1> QED BY <1>1, <1>2, <1>5, <1>7, <1>8, <1>9, <1>10, <1>11, <1>12, <1>13

-----------------------------------------------------------------------------
(* A hop through a port that stays in the mesh, and the port it comes by.  *)
LEMMA MeshHop ==
  ASSUME NEW r \in Router, NEW p \in MeshPorts(r)
  PROVE  Nbr(r, p) \in Router /\ Opp(p) \in MeshPorts(Nbr(r, p))
<1>1. /\ K \in Nat /\ K >= 4 /\ r[1] \in 0 .. K - 1 /\ r[2] \in 0 .. K - 1
      /\ \A i, j \in 0 .. K - 1 : <<i, j>> \in Router
  BY RouterRowCol DEF Row, Col
<1>2. p \in Port /\ ~Boundary(r, p) BY DEF MeshPorts
<1>3. CASE p = 0
  <2>1. r[2] # K - 1 /\ Nbr(r, p) = <<r[1], r[2] + 1>> /\ Opp(p) = 1
    BY <1>2, <1>3 DEF Boundary, Nbr, Succ, Opp
  <2> QED BY <1>1, <2>1 DEF MeshPorts, Port, Boundary
<1>4. CASE p = 1
  <2>1. r[2] # 0 /\ Nbr(r, p) = <<r[1], r[2] - 1>> /\ Opp(p) = 0
    BY <1>2, <1>4 DEF Boundary, Nbr, Pred, Opp
  <2> QED BY <1>1, <2>1 DEF MeshPorts, Port, Boundary
<1>5. CASE p = 2
  <2>1. r[1] # K - 1 /\ Nbr(r, p) = <<r[1] + 1, r[2]>> /\ Opp(p) = 3
    BY <1>2, <1>5 DEF Boundary, Nbr, Succ, Opp
  <2> QED BY <1>1, <2>1 DEF MeshPorts, Port, Boundary
<1>6. CASE p = 3
  <2>1. r[1] # 0 /\ Nbr(r, p) = <<r[1] - 1, r[2]>> /\ Opp(p) = 2
    BY <1>2, <1>6 DEF Boundary, Nbr, Pred, Opp
  <2> QED BY <1>1, <2>1 DEF MeshPorts, Port, Boundary
<1> QED BY <1>2, <1>3, <1>4, <1>5, <1>6 DEF Port

(* The ports on the shortest ways stay in the mesh.                        *)
LEMMA Productive ==
  ASSUME at \in Router, dest \in Router, at # dest
  PROVE  XY \in MeshPorts(at) /\ YX \in MeshPorts(at)
<1>1. /\ K \in Nat
      /\ Row(at) \in 0 .. K - 1 /\ Col(at) \in 0 .. K - 1 /\ at = <<Row(at), Col(at)>>
      /\ Row(dest) \in 0 .. K - 1 /\ Col(dest) \in 0 .. K - 1 /\ dest = <<Row(dest), Col(dest)>>
  BY RouterRowCol
<1>2. Col(at) # Col(dest) => XPort \in MeshPorts(at)
  BY <1>1 DEF XPort, MeshPorts, Port, Boundary, Row, Col, East, West
<1>3. Row(at) # Row(dest) => YPort \in MeshPorts(at)
  BY <1>1 DEF YPort, MeshPorts, Port, Boundary, Row, Col, South, North
<1>4. Col(at) # Col(dest) \/ Row(at) # Row(dest) BY <1>1
<1> QED BY <1>2, <1>3, <1>4 DEF XY, YX

LEMMA DistanceNat == ASSUME NEW r \in Router, NEW s \in Router PROVE Distance(r, s) \in Nat
BY RouterRowCol DEF Distance, Abs

(* What a step does to the packet: it leaves through a port of the mesh,   *)
(* towards a router that is off through the ring only.                     *)
LEMMA StepLeaves ==
  ASSUME TypeOK, Next
  PROVE  \E p \in MeshPorts(at), class \in VCClass, steps \in {1, 2} :
           /\ Leave(p, class, steps)
           /\ Nbr(at, p) \in off => p = RingOut(at)
<1>1. at \in Router /\ dest \in Router /\ RingHop(at) BY RingIsCycle DEF TypeOK
<1>2. RingClass \in VCClass BY DEF RingClass, VCClass, Escape
<1>3. CASE Route
  <2>1. PICK c \in nord_mesh : Leave(c[1], c[2], 1) BY <1>3 DEF Route
  <2>2. CASE c = <<RingOut(at), RingClass>>
    BY <2>1, <2>2, <1>1, <1>2 DEF RingHop
  <2>3. CASE c # <<RingOut(at), RingClass>>
    <3>1. /\ c[2] = "free"
          /\ c[1] = RingOut(at) \/ (c[1] \in {XY, YX} /\ Available(c[1]))
      BY <2>3, <2>1 DEF nord_mesh
    <3>2. c[1] \in MeshPorts(at) BY <3>1, <1>1, <1>3, Productive DEF RingHop, Route
    <3>3. Nbr(at, c[1]) \in off => c[1] = RingOut(at) BY <3>1 DEF Available
    <3>4. c[2] \in VCClass BY <3>1 DEF VCClass
    <3> QED BY <2>1, <3>2, <3>3, <3>4
  <2> QED BY <2>2, <2>3
<1>4. CASE Bypass
  <2>1. BypassClass \in VCClass BY <1>2 DEF BypassClass, VCClass
  <2> QED BY <2>1, <1>1, <1>4 DEF Bypass, RingHop
<1> QED BY <1>3, <1>4 DEF Next

(* Type correctness of the packet's way.                                   *)
THEOREM NordTypeCorrect == Spec => []TypeOK
<1>1. Init => TypeOK
  <2> SUFFICES ASSUME Init PROVE TypeOK
    OBVIOUS
  <2>1. /\ off \subseteq Router \ BottomRow /\ src \in Router \ off /\ dest \in Router \ off
        /\ at = src /\ inp = Local /\ vc \in VCClass /\ hops = 0 /\ misroute = 0
    BY NordRoutingAssumption DEF Init
  <2>2. Shortest \in Nat BY <2>1, DistanceNat DEF Shortest
  <2>3. hops \in 0 .. Shortest /\ misroute \in 0 .. MaxMisroute + 1
    BY <2>1, <2>2, NordRoutingAssumption
  <2> QED BY <2>1, <2>3 DEF TypeOK
<1>2. TypeOK /\ [Next]_vars => TypeOK'
  <2> SUFFICES ASSUME TypeOK, [Next]_vars PROVE TypeOK'
    OBVIOUS
  <2>1. CASE Next
    <3>1. PICK p \in MeshPorts(at), class \in VCClass, steps \in {1, 2} : Leave(p, class, steps)
      BY <2>1, StepLeaves
    <3>2. UNCHANGED net BY <3>1 DEF Leave
    <3>3. at' \in Router /\ inp' \in MeshPorts(at') \cup {Local} /\ vc' \in VCClass
      BY <3>1, MeshHop DEF Leave, TypeOK
    <3>4. Shortest \in Nat /\ Shortest' = Shortest
      BY <3>2, DistanceNat DEF Shortest, net, TypeOK
    <3>5. hops' \in 0 .. Shortest'
      BY <3>1, <3>4 DEF Leave, AtMost, TypeOK
    <3>6. misroute' \in 0 .. MaxMisroute + 1
      BY <3>1, NordRoutingAssumption DEF Leave, AtMost, TypeOK
    <3> QED BY <3>2, <3>3, <3>5, <3>6 DEF TypeOK, net
  <2>2. CASE UNCHANGED vars
    BY <2>2 DEF TypeOK, vars, net, packet, Shortest
  <2> QED BY <2>1, <2>2
<1> QED BY <1>1, <1>2, PTL DEF Spec

(* A router that is off is only ever passed along the ring.                *)
THEOREM OffOnlyByRing == Spec => []OffByRing
<1>1. Init => OffByRing BY DEF Init, OffByRing
<1>2. TypeOK /\ OffByRing /\ [Next]_vars => OffByRing'
  <2> SUFFICES ASSUME TypeOK, OffByRing, [Next]_vars PROVE OffByRing'
    OBVIOUS
  <2>1. CASE Next
    <3>1. PICK p \in MeshPorts(at), class \in VCClass, steps \in {1, 2} :
            Leave(p, class, steps) /\ (Nbr(at, p) \in off => p = RingOut(at))
      BY <2>1, StepLeaves
    <3>2. RingHop(at) BY RingIsCycle DEF TypeOK
    <3>3. at' = Nbr(at, p) /\ inp' = Opp(p) /\ off' = off BY <3>1 DEF Leave, net
    <3>4. ASSUME at' \in off' PROVE inp' = RingIn(at')
      BY <3>1, <3>2, <3>3, <3>4 DEF RingHop, RingNext
    <3> QED BY <3>4 DEF OffByRing
  <2>2. CASE UNCHANGED vars
    BY <2>2 DEF OffByRing, vars, net, packet
  <2> QED BY <2>1, <2>2
<1> QED BY <1>1, <1>2, NordTypeCorrect, PTL DEF Spec

-----------------------------------------------------------------------------
(* The strengthening behind the order of the escape VCs: on the low VC the *)
(* destination lies ahead without a wrap; on the high VC it does only when *)
(* the packet has wrapped and met no router that is on since.              *)
Dateline ==
  InEscape => /\ vc = "low" => RingId(at) <= RingId(dest)
              /\ vc = "high" /\ RingId(at) <= RingId(dest) => Wrapped(at)

(* A router up to which none is on lies before every destination, and the  *)
(* first router of the ring is such a one.                                 *)
LEMMA WrappedFacts ==
  ASSUME TypeOK
  PROVE  /\ \A r \in Router : RingId(r) = 0 => Wrapped(r)
         /\ Wrapped(at) => RingId(at) <= RingId(dest)
         /\ \A r, s \in Router : Wrapped(s) /\ RingId(r) <= RingId(s) => Wrapped(r)
         /\ \A r, s \in Router : Wrapped(r) /\ r \in off /\ RingId(s) = RingId(r) + 1 => Wrapped(s)
<1>1. \A r \in Router : RingId(r) \in Int /\ RingId(r) >= 0
  BY RingIdBlock
<1>2. at \in Router /\ dest \in Router /\ dest \notin off BY DEF TypeOK
<1>3. Wrapped(at) => RingId(at) <= RingId(dest) BY <1>1, <1>2 DEF Wrapped
<1>4. ASSUME NEW r \in Router, NEW s \in Router, Wrapped(r), r \in off, RingId(s) = RingId(r) + 1,
             NEW t \in Router, RingId(t) < RingId(s)
      PROVE  t \in off
  <2>1. CASE RingId(t) < RingId(r) BY <2>1, <1>4 DEF Wrapped
  <2>2. CASE RingId(t) = RingId(r) BY <2>2, <1>4, RingIdInjective
  <2> QED BY <2>1, <2>2, <1>1, <1>4
<1>5. \A r, s \in Router : Wrapped(s) /\ RingId(r) <= RingId(s) => Wrapped(r)
  BY <1>1 DEF Wrapped
<1>6. \A r \in Router : RingId(r) = 0 => Wrapped(r) BY <1>1 DEF Wrapped
<1>7. \A r, s \in Router : Wrapped(r) /\ r \in off /\ RingId(s) = RingId(r) + 1 => Wrapped(s)
  BY <1>4 DEF Wrapped
<1> QED BY <1>3, <1>5, <1>6, <1>7

(* The step of a packet from one router of the ring to the next on an      *)
(* escape VC.                                                              *)
RingStep(class) ==
  /\ at' = RingNext(at) /\ inp' # Local /\ vc' = class /\ class \in Escape
  /\ UNCHANGED net

(* Where such a step puts the packet: on the low VC when the destination   *)
(* is ahead without a wrap, else on the high one, unless a router that is  *)
(* off keeps the VC.                                                       *)
LEMMA RingStepOrder ==
  ASSUME TypeOK, Dateline, at # dest, NEW class \in Escape, RingStep(class),
         \/ class = RingClass
         \/ InEscape /\ at \in off /\ class = vc
  PROVE  /\ Dateline'
         /\ InEscape => \/ Phase' > Phase
                        \/ Phase' = Phase /\ RingId(at)' > RingId(at)
<1>1. /\ at \in Router /\ dest \in Router /\ at' \in Router
      /\ RingId(at') = IF RingId(at) = K * K - 1 THEN 0 ELSE RingId(at) + 1
  BY RingIsCycle DEF TypeOK, RingHop, RingStep
<1>2. /\ K * K \in Int
      /\ RingId(at) \in 0 .. K * K - 1 /\ RingId(dest) \in 0 .. K * K - 1
      /\ RingId(at) # RingId(dest)
  BY <1>1, RingIdBlock, RingIdInjective, RouterRowCol
<1>3. /\ off' = off /\ dest' = dest /\ vc' = class /\ InEscape' /\ RingId(at)' = RingId(at')
      /\ RingId(dest)' = RingId(dest)
      /\ \A r : Wrapped(r)' <=> Wrapped(r)
  BY DEF RingStep, net, InEscape, Wrapped
<1>4. Wrapped(at)' <=> Wrapped(at')
  BY <1>3 DEF Wrapped
<1>5. /\ RingId(at') = 0 => Wrapped(at')
      /\ Wrapped(at) => RingId(at) <= RingId(dest)
      /\ Wrapped(at) /\ at \in off /\ RingId(at') = RingId(at) + 1 => Wrapped(at')
      /\ Wrapped(at') /\ RingId(at) <= RingId(at') => Wrapped(at)
  BY <1>1, WrappedFacts
<1>6. class \in {"low", "high"} /\ "low" # "high" BY DEF Escape
<1>7. RingClass = IF RingId(dest) > RingId(at) THEN "low" ELSE "high" BY DEF RingClass
<1>8. InEscape => vc \in {"low", "high"} BY DEF InEscape, Escape
<1>9. Dateline'
  <2>1. ASSUME class = "low" PROVE RingId(at') <= RingId(dest)
    <3>1. RingId(at) < RingId(dest) BY <2>1, <1>2, <1>6, <1>7 DEF Dateline
    <3> QED BY <3>1, <1>1, <1>2
  <2>2. ASSUME class = "high", RingId(at') <= RingId(dest) PROVE Wrapped(at')
    <3>1. CASE RingId(at') = 0 BY <3>1, <1>5
    <3>2. CASE RingId(at') # 0
      <4>1. RingId(at') = RingId(at) + 1 /\ RingId(at) < RingId(dest)
        BY <3>2, <2>2, <1>1, <1>2
      <4>2. InEscape /\ at \in off /\ vc = "high" BY <4>1, <2>2, <1>2, <1>6, <1>7
      <4>3. Wrapped(at) BY <4>1, <4>2, <1>2 DEF Dateline
      <4> QED BY <4>1, <4>2, <4>3, <1>5
    <3> QED BY <3>1, <3>2
  <2> QED BY <2>1, <2>2, <1>3, <1>4 DEF Dateline
<1>10. ASSUME InEscape
       PROVE \/ Phase' > Phase
             \/ Phase' = Phase /\ RingId(at)' > RingId(at)
  <2>1. /\ Phase  = IF vc = "low" THEN 2 ELSE IF Wrapped(at) THEN 1 ELSE 0
        /\ Phase' = IF class = "low" THEN 2 ELSE IF Wrapped(at') THEN 1 ELSE 0
    BY <1>3, <1>4 DEF Phase
  <2>2. CASE class = "low"
    <3>1. RingId(at) < RingId(dest) BY <2>2, <1>2, <1>6, <1>7 DEF Dateline
    <3>2. RingId(at') = RingId(at) + 1 BY <3>1, <1>1, <1>2
    <3> QED BY <2>1, <2>2, <3>2, <1>2, <1>3
  <2>3. CASE class = "high"
    <3>1. vc = "high"
      <4>1. CASE class = vc BY <4>1, <2>3
      <4>2. CASE class = RingClass /\ vc = "low"
        <5>1. RingId(at) <= RingId(dest) BY <4>2, <1>10 DEF Dateline
        <5>2. RingId(dest) > RingId(at) BY <5>1, <1>2
        <5>3. RingClass = "low" BY <5>2, <1>7
        <5> QED BY <5>3, <4>2, <2>3, <1>6
      <4> QED BY <4>1, <4>2, <1>8, <1>10, <2>3
    <3>2. CASE RingId(at') = 0
      <4>1. RingId(at) = K * K - 1 BY <3>2, <1>1, <1>2
      <4>2. ~Wrapped(at) BY <4>1, <1>2, <1>5
      <4> QED BY <4>2, <3>1, <3>2, <2>1, <2>3, <1>5, <1>6
    <3>3. CASE RingId(at') # 0
      <4>1. RingId(at') = RingId(at) + 1 /\ RingId(at)' > RingId(at)
        BY <3>3, <1>1, <1>2, <1>3
      <4>2. Wrapped(at) => Wrapped(at')
        <5>1. CASE at \in off BY <5>1, <4>1, <1>5
        <5>2. CASE at \notin off
          <6>1. RingId(at) > RingId(dest) BY <5>2, <2>3, <1>2, <1>6, <1>7
          <6> QED BY <6>1, <1>2, <1>5
        <5> QED BY <5>1, <5>2
      <4> QED BY <4>1, <4>2, <3>1, <2>1, <2>3, <1>6
    <3> QED BY <3>2, <3>3
  <2> QED BY <2>2, <2>3, <1>6
<1> QED BY <1>9, <1>10

(* Every step of a packet that is on the escape ring or enters it is such  *)
(* a step.                                                                 *)
LEMMA StepIsRingStep ==
  ASSUME TypeOK, OffByRing, Next
  PROVE  /\ at # dest
         /\ \/ ~InEscape /\ vc' = "free"
            \/ \E class \in Escape :
                 /\ RingStep(class)
                 /\ \/ class = RingClass
                    \/ InEscape /\ at \in off /\ class = vc
<1>1. /\ at \in Router /\ RingHop(at) /\ dest \notin off
      /\ RingOut(at) \in Port
  BY RingIsCycle DEF TypeOK, RingHop, MeshPorts
<1>2. Opp(RingOut(at)) # Local
  <2>1. Opp(RingOut(at)) \in Port BY <1>1, MeshHop DEF RingHop, MeshPorts
  <2> QED BY <2>1 DEF Port, Local
<1>3. RingClass \in Escape BY DEF RingClass, Escape
<1>4. CASE Route
  <2>1. PICK c \in nord_mesh : Leave(c[1], c[2], 1) BY <1>4 DEF Route
  <2>2. CASE c = <<RingOut(at), RingClass>>
    BY <2>1, <2>2, <1>2, <1>3, <1>4 DEF Leave, RingStep, RingNext, Route
  <2>3. CASE c # <<RingOut(at), RingClass>>
    <3>1. ~InEscape /\ c[2] = "free" BY <2>1, <2>3 DEF nord_mesh
    <3> QED BY <3>1, <2>1, <1>4 DEF Leave, Route
  <2> QED BY <2>2, <2>3
<1>5. CASE Bypass
  <2>1. /\ at \in off /\ at # dest /\ Leave(RingOut(at), BypassClass, 2) BY <1>5, <1>1 DEF Bypass
  <2>2. inp # Local
    <3>1. RingIn(at) \in {0, 1, 2, 3}
      BY DEF RingIn, East, West, South, North
    <3> QED BY <3>1, <2>1 DEF OffByRing, Local
  <2>3. CASE vc \in Escape
    <3>1. BypassClass = vc /\ InEscape BY <2>2, <2>3 DEF BypassClass, InEscape
    <3> QED BY <3>1, <2>1, <2>3, <1>2 DEF Leave, RingStep, RingNext
  <2>4. CASE vc \notin Escape /\ GoToEscape
    <3>1. BypassClass = RingClass BY <2>4 DEF BypassClass
    <3> QED BY <3>1, <2>1, <1>2, <1>3 DEF Leave, RingStep, RingNext
  <2>5. CASE vc \notin Escape /\ ~GoToEscape
    <3>1. BypassClass = "free" /\ ~InEscape BY <2>5 DEF BypassClass, InEscape
    <3> QED BY <3>1, <2>1 DEF Leave
  <2> QED BY <2>3, <2>4, <2>5
<1> QED BY <1>4, <1>5 DEF Next

(* The dateline keeps its promise at every router, on or off.              *)
THEOREM DatelineHolds == Spec => []Dateline
<1>1. Init => Dateline BY DEF Init, Dateline, InEscape
<1>2. TypeOK /\ OffByRing /\ Dateline /\ [Next]_vars => Dateline'
  <2> SUFFICES ASSUME TypeOK, OffByRing, Dateline, [Next]_vars PROVE Dateline'
    OBVIOUS
  <2>1. CASE Next
    <3>1. CASE vc' = "free" BY <3>1 DEF Dateline, InEscape, Escape
    <3>2. CASE vc' # "free" BY <3>2, <2>1, StepIsRingStep, RingStepOrder
    <3> QED BY <3>1, <3>2
  <2>2. CASE UNCHANGED vars
    <3>1. UNCHANGED <<off, dest, at, inp, vc>> BY <2>2 DEF vars, net, packet
    <3> QED BY <3>1 DEF Dateline, InEscape, Wrapped
  <2> QED BY <2>1, <2>2
<1> QED BY <1>1, <1>2, NordTypeCorrect, OffOnlyByRing, PTL DEF Spec

(* Packets on the escape VCs take its buffers in one order, for every mesh *)
(* of even size and whichever routers are off: they never wait for each    *)
(* other in a circle.                                                      *)
THEOREM EscapeRingOrdered == Spec => EscapeInOrder
<1>1. TypeOK /\ OffByRing /\ Dateline /\ [Next]_vars => [TakesRingInOrder]_vars
  <2> SUFFICES ASSUME TypeOK, OffByRing, Dateline, Next PROVE TakesRingInOrder
    OBVIOUS
  <2> SUFFICES ASSUME InEscape
               PROVE  /\ InEscape'
                      /\ \/ Phase' > Phase
                         \/ Phase' = Phase /\ RingId(at)' > RingId(at)
    BY DEF TakesRingInOrder
  <2>1. PICK class \in Escape :
          RingStep(class) /\ (class = RingClass \/ (InEscape /\ at \in off /\ class = vc))
    BY StepIsRingStep
  <2>2. InEscape' BY <2>1 DEF RingStep, InEscape
  <2>3. at # dest BY StepIsRingStep
  <2> QED BY <2>1, <2>2, <2>3, RingStepOrder
<1> QED BY <1>1, NordTypeCorrect, OffOnlyByRing, DatelineHolds, PTL DEF Spec, EscapeInOrder
=============================================================================
