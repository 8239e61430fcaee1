---------------------------- MODULE RpMeshProofs ----------------------------
(***************************************************************************)
(* Proofs about router parking, for every K, every fabric manager, any     *)
(* cores that are drawn and both policies.                                 *)
(*                                                                         *)
(* First the routing tables, for whatever routers the constructor of       *)
(* Network leaves on: the search of shortest paths is exact, the breadth   *)
(* first search leaves a tree of shortest paths, and every entry of a      *)
(* table leads one hop along a shortest path over its links.  Then the     *)
(* tables at work: they are exact when they are used, no flit comes to a   *)
(* parked router, regular hops come closer, and escape routes never climb  *)
(* again.                                                                  *)
(***************************************************************************)
EXTENDS RpMesh, ParkingProofs, SequenceTheorems

(* Induction, for a set in place of a predicate. *)
LEMMA Induction ==
  ASSUME NEW S \in SUBSET Nat, 0 \in S, \A n \in S : n + 1 \in S
  PROVE  \A n \in Nat : n \in S
<1> SUFFICES ASSUME NEW n \in Nat, n \notin S PROVE FALSE
  OBVIOUS
<1> DEFINE Missing == {i \in Nat : i \notin S}
<1>1. Missing \in SUBSET Nat /\ Missing # {}
  OBVIOUS
<1>2. PICK m \in Missing : \A i \in Missing : m <= i
  <2> HIDE DEF Missing
  <2> QED
    BY <1>1, Least
<1>3. m \in Nat /\ m # 0 /\ m - 1 \in Nat /\ m - 1 \notin Missing
  BY <1>2
<1>4. m - 1 \in S /\ (m - 1) + 1 = m
  BY <1>3
<1> QED
  BY <1>2, <1>4

-----------------------------------------------------------------------------
(* Loops. *)

(* The first n turns, as a function. *)
IsRun(T, s, f, n) == f = [i \in 0 .. n |-> IF i = 0 THEN s ELSE T[f[i - 1]]]

LEMMA RunsAgree ==
  ASSUME NEW T, NEW s, NEW f, NEW g, NEW m \in Nat, NEW n \in Nat,
         IsRun(T, s, f, m), IsRun(T, s, g, n)
  PROVE  \A i \in Nat : i <= m /\ i <= n => f[i] = g[i]
<1> DEFINE S == {i \in Nat : i <= m /\ i <= n => f[i] = g[i]}
<1>1. 0 \in S
  BY DEF IsRun
<1>2. ASSUME NEW i \in S PROVE i + 1 \in S
  <2> SUFFICES ASSUME i + 1 <= m, i + 1 <= n PROVE f[i + 1] = g[i + 1]
    OBVIOUS
  <2>1. f[i] = g[i] /\ (i + 1) - 1 = i /\ i + 1 # 0 /\ i + 1 \in 0 .. m /\ i + 1 \in 0 .. n
    OBVIOUS
  <2>2. f[i + 1] = T[f[i]]
    BY <2>1 DEF IsRun
  <2>3. g[i + 1] = T[g[i]]
    BY <2>1 DEF IsRun
  <2> QED
    BY <2>1, <2>2, <2>3
<1>3. \A i \in Nat : i \in S
  <2> HIDE DEF S
  <2>1. S \in SUBSET Nat
    BY DEF S
  <2> QED
    BY <1>1, <1>2, <2>1, Induction
<1> QED
  BY <1>3

LEMMA RunExists ==
  ASSUME NEW T, NEW s
  PROVE  \A n \in Nat : \E f : IsRun(T, s, f, n)
<1> DEFINE S == {n \in Nat : \E f : IsRun(T, s, f, n)}
<1>1. 0 \in S
  <2> DEFINE f == [i \in 0 .. 0 |-> s]
  <2>1. f = [i \in 0 .. 0 |-> IF i = 0 THEN s ELSE T[f[i - 1]]]
    OBVIOUS
  <2> QED
    BY <2>1 DEF IsRun
<1>2. ASSUME NEW n \in S PROVE n + 1 \in S
  <2>1. PICK f : IsRun(T, s, f, n)
    OBVIOUS
  <2> DEFINE g == [i \in 0 .. n + 1 |-> IF i = n + 1 THEN T[f[n]] ELSE f[i]]
  <2>2. \A i \in 0 .. n + 1 : g[i] = IF i = 0 THEN s ELSE T[g[i - 1]]
    <3> SUFFICES ASSUME NEW i \in 0 .. n + 1 PROVE g[i] = IF i = 0 THEN s ELSE T[g[i - 1]]
      OBVIOUS
    <3>1. CASE i = n + 1
      <4>1. i # 0 /\ i - 1 = n /\ n \in 0 .. n + 1 /\ n # n + 1
        BY <3>1
      <4>2. g[i] = T[f[n]] /\ g[n] = f[n]
        BY <3>1, <4>1
      <4> HIDE DEF g
      <4> QED
        BY <4>1, <4>2
    <3>2. CASE i # n + 1 /\ i # 0
      <4>1. i \in 0 .. n /\ i - 1 \in 0 .. n + 1 /\ i - 1 # n + 1
        BY <3>2
      <4>2. g[i] = f[i] /\ g[i - 1] = f[i - 1]
        BY <3>2, <4>1
      <4>3. f[i] = T[f[i - 1]]
        BY <2>1, <3>2, <4>1 DEF IsRun
      <4> HIDE DEF g
      <4> QED
        BY <3>2, <4>2, <4>3
    <3>3. CASE i = 0
      <4>1. g[i] = f[0] /\ f[0] = s
        BY <2>1, <3>3 DEF IsRun
      <4> HIDE DEF g
      <4> QED
        BY <3>3, <4>1
    <3> QED
      BY <3>1, <3>2, <3>3
  <2>3. IsRun(T, s, g, n + 1)
    <3>1. g = [i \in 0 .. n + 1 |-> g[i]]
      OBVIOUS
    <3> HIDE DEF g
    <3> QED
      BY <2>2, <3>1 DEF IsRun
  <2> QED
    BY <2>3
<1> HIDE DEF S
<1>3. S \in SUBSET Nat
  BY DEF S
<1>4. \A n \in Nat : n \in S
  BY <1>1, <1>2, <1>3, Induction
<1> QED
  BY <1>4 DEF S

LEMMA TurnByTurn ==
  ASSUME NEW T, NEW s
  PROVE  /\ Turns(T, s, 0) = s
         /\ \A n \in Nat : Turns(T, s, n + 1) = T[Turns(T, s, n)]
<1> DEFINE Run(n) == CHOOSE f : IsRun(T, s, f, n)
           F == [n \in Nat |-> Run(n)[n]]
<1>1. \A n \in Nat : IsRun(T, s, Run(n), n)
  BY RunExists
<1>2. \A n \in Nat : F[n] = IF n = 0 THEN s ELSE T[F[n - 1]]
  <2> SUFFICES ASSUME NEW n \in Nat PROVE F[n] = IF n = 0 THEN s ELSE T[F[n - 1]]
    OBVIOUS
  <2>0. F[n] = Run(n)[n]
    OBVIOUS
  <2>1. CASE n = 0
    <3>1. Run(n)[n] = s
      <4> HIDE DEF Run
      <4> QED
        BY <1>1, <2>1 DEF IsRun
    <3> QED
      BY <2>0, <2>1, <3>1
  <2>2. CASE n # 0
    <3>1. n - 1 \in Nat /\ n - 1 <= n
      BY <2>2
    <3>2. F[n - 1] = Run(n - 1)[n - 1]
      BY <3>1
    <3> HIDE DEF F, Run
    <3>3. Run(n - 1)[n - 1] = Run(n)[n - 1]
      <4>1. IsRun(T, s, Run(n), n) /\ IsRun(T, s, Run(n - 1), n - 1)
        BY <1>1, <3>1
      <4> QED
        BY <3>1, <4>1, RunsAgree
    <3>4. Run(n)[n] = T[Run(n)[n - 1]]
      <4>1. IsRun(T, s, Run(n), n) /\ n \in 0 .. n
        BY <1>1
      <4> QED
        BY <2>2, <4>1 DEF IsRun
    <3> QED
      BY <2>0, <2>2, <3>2, <3>3, <3>4
  <2> QED
    BY <2>1, <2>2
<1>3. F = [n \in Nat |-> F[n]]
  OBVIOUS
<1> HIDE DEF F
<1>4. F = [n \in Nat |-> IF n = 0 THEN s ELSE T[F[n - 1]]]
  BY <1>2, <1>3
<1> DEFINE G == CHOOSE turn : turn = [i \in Nat |-> IF i = 0 THEN s ELSE T[turn[i - 1]]]
<1>5. G = [i \in Nat |-> IF i = 0 THEN s ELSE T[G[i - 1]]]
  BY <1>4
<1>6. \A n : Turns(T, s, n) = G[n]
  BY DEF Turns
<1> HIDE DEF G
<1>7. G[0] = s
  BY <1>5
<1>8. ASSUME NEW n \in Nat PROVE G[n + 1] = T[G[n]]
  <2>1. n + 1 \in Nat /\ n + 1 # 0 /\ (n + 1) - 1 = n
    OBVIOUS
  <2> QED
    BY <1>5, <2>1
<1> QED
  BY <1>6, <1>7, <1>8

-----------------------------------------------------------------------------
(* Hops over links. *)

LEMMA BallGrows ==
  ASSUME NEW r \in Router, NEW L
  PROVE  /\ Ball(r, L, 0) = {r}
         /\ \A n \in Nat : Ball(r, L, n) \in SUBSET Router
         /\ \A n \in Nat : Ball(r, L, n + 1) = Grown(Ball(r, L, n), L)
<1> DEFINE T == [B \in SUBSET Router |-> Grown(B, L)]
           S == {n \in Nat : Ball(r, L, n) \in SUBSET Router}
<1>1. \A n : Ball(r, L, n) = Turns(T, {r}, n)
  BY DEF Ball
<1>2. \A B \in SUBSET Router : T[B] = Grown(B, L) /\ T[B] \in SUBSET Router
  BY DEF Grown
<1> HIDE DEF T
<1>3. Ball(r, L, 0) = {r} /\ \A n \in Nat : Ball(r, L, n + 1) = T[Ball(r, L, n)]
  BY <1>1, TurnByTurn
<1>4. 0 \in S /\ \A n \in S : n + 1 \in S
  BY <1>2, <1>3
<1>5. \A n \in Nat : n \in S
  <2>1. S \in SUBSET Nat
    OBVIOUS
  <2> HIDE DEF S
  <2> QED
    BY <1>4, <2>1, Induction
<1> QED
  BY <1>2, <1>3, <1>5

LEMMA BallMonotone ==
  ASSUME NEW r \in Router, NEW L, NEW m \in Nat, NEW n \in Nat, m <= n
  PROVE  Ball(r, L, m) \subseteq Ball(r, L, n)
<1> DEFINE S == {i \in Nat : Ball(r, L, m) \subseteq Ball(r, L, m + i)}
<1>1. 0 \in S
  OBVIOUS
<1>2. ASSUME NEW i \in S PROVE i + 1 \in S
  <2>1. i \in Nat /\ m + i \in Nat /\ (m + i) + 1 = m + (i + 1)
    OBVIOUS
  <2>2. Ball(r, L, m) \subseteq Ball(r, L, m + i)
    OBVIOUS
  <2> HIDE DEF S
  <2>3. Ball(r, L, (m + i) + 1) = Grown(Ball(r, L, m + i), L)
    BY <2>1, BallGrows
  <2>4. Ball(r, L, m) \subseteq Ball(r, L, m + (i + 1))
    BY <2>1, <2>2, <2>3 DEF Grown
  <2> QED
    BY <2>1, <2>4 DEF S
<1>3. \A i \in Nat : i \in S
  <2>1. S \in SUBSET Nat
    OBVIOUS
  <2> HIDE DEF S
  <2> QED
    BY <1>1, <1>2, <2>1, Induction
<1>4. n - m \in Nat /\ m + (n - m) = n
  OBVIOUS
<1> QED
  BY <1>3, <1>4

(* One hop more at the end, and at the beginning. *)
LEMMA BallExtends ==
  ASSUME NEW r \in Router, NEW L, NEW n \in Nat
  PROVE  /\ \A q \in Ball(r, L, n), s \in Router : <<q, s>> \in L => s \in Ball(r, L, n + 1)
         /\ \A s \in Ball(r, L, n + 1) :
              s \in Ball(r, L, n) \/ \E q \in Ball(r, L, n) : <<q, s>> \in L
<1>1. Ball(r, L, n + 1) = Grown(Ball(r, L, n), L)
  BY BallGrows
<1> QED
  BY <1>1 DEF Grown

LEMMA BallPrepends ==
  ASSUME NEW r \in Router, NEW L, NEW h \in Router, <<r, h>> \in L
  PROVE  \A n \in Nat : Ball(h, L, n) \subseteq Ball(r, L, n + 1)
<1> DEFINE S == {n \in Nat : Ball(h, L, n) \subseteq Ball(r, L, n + 1)}
<1>1. 0 \in S
  <2>1. Ball(h, L, 0) = {h} /\ Ball(r, L, 0) = {r}
    BY BallGrows
  <2> QED
    BY <2>1, BallExtends
<1>2. ASSUME NEW n \in S PROVE n + 1 \in S
  <2> SUFFICES ASSUME NEW s \in Ball(h, L, n + 1) PROVE s \in Ball(r, L, (n + 1) + 1)
    OBVIOUS
  <2>0. n \in Nat /\ n + 1 \in Nat /\ Ball(h, L, n) \subseteq Ball(r, L, n + 1)
    OBVIOUS
  <2>1. s \in Router
    <3>1. Ball(h, L, n + 1) \in SUBSET Router
      BY <2>0, BallGrows
    <3> QED
      BY <3>1
  <2>2. CASE s \in Ball(h, L, n)
    <3>1. Ball(r, L, n + 1) \subseteq Ball(r, L, (n + 1) + 1)
      BY <2>0, BallMonotone
    <3> QED
      BY <2>0, <2>2, <3>1
  <2>3. CASE \E q \in Ball(h, L, n) : <<q, s>> \in L
    BY <2>0, <2>1, <2>3, BallExtends
  <2> QED
    BY <2>0, <2>2, <2>3, BallExtends
<1>3. S \in SUBSET Nat
  OBVIOUS
<1> HIDE DEF S
<1>4. \A n \in Nat : n \in S
  BY <1>1, <1>2, <1>3, Induction
<1> QED
  BY <1>4 DEF S

(* The links connect all routers of N. *)
Closed(S, L) == \A q \in S, s \in Router : <<q, s>> \in L => s \in S
Whole(N, L)  == L \subseteq N \X N /\ \A S \in SUBSET N : Closed(S, L) => S \in {{}, N}

LEMMA RoutersAreFinite ==
  IsFiniteSet(Router) /\ Cardinality(Router) = K * K
<1>1. K \in Int /\ K >= 2 /\ 0 \in Int /\ K - 1 \in Int
  BY KAssumption
<1>2. IsFiniteSet(Coord) /\ Cardinality(Coord) = K
  <2>1. Cardinality(0 .. K - 1) = IF 0 > K - 1 THEN 0 ELSE (K - 1) - 0 + 1
    BY <1>1, FS_Interval
  <2>2. IsFiniteSet(0 .. K - 1)
    BY <1>1, FS_Interval
  <2> QED
    BY <1>1, <2>1, <2>2 DEF Coord
<1> QED
  BY <1>2, FS_Product DEF Router

LEMMA BallStaysIn ==
  ASSUME NEW N \in SUBSET Router, NEW r \in N, NEW L \in SUBSET (N \X N)
  PROVE  \A n \in Nat : Ball(r, L, n) \in SUBSET N
<1> DEFINE S == {n \in Nat : Ball(r, L, n) \in SUBSET N}
<1>1. 0 \in S
  BY BallGrows
<1>2. ASSUME NEW n \in S PROVE n + 1 \in S
  <2>1. n \in Nat /\ Ball(r, L, n) \in SUBSET N
    OBVIOUS
  <2> SUFFICES ASSUME NEW s \in Ball(r, L, n + 1) PROVE s \in N
    OBVIOUS
  <2>2. r \in Router
    OBVIOUS
  <2>3. s \in Ball(r, L, n) \/ \E q \in Ball(r, L, n) : <<q, s>> \in L
    BY <2>1, <2>2, BallExtends
  <2> QED
    BY <2>1, <2>3
<1>3. S \in SUBSET Nat
  OBVIOUS
<1> HIDE DEF S
<1>4. \A n \in Nat : n \in S
  BY <1>1, <1>2, <1>3, Induction
<1> QED
  BY <1>4 DEF S

LEMMA BallIsWhole ==
  ASSUME NEW N \in SUBSET Router, NEW r \in N, NEW L, Whole(N, L)
  PROVE  Ball(r, L, K * K - 1) = N
<1> DEFINE C(n) == Cardinality(Ball(r, L, n))
           S == {n \in Nat : Ball(r, L, n) = N \/ C(n) > n}
<1>0. \A n \in Nat : /\ IsFiniteSet(Ball(r, L, n)) /\ C(n) \in Nat
                     /\ Ball(r, L, n) \in SUBSET N
  <2>1. \A n \in Nat : Ball(r, L, n) \in SUBSET N
    BY BallStaysIn DEF Whole
  <2>2. \A n \in Nat : Ball(r, L, n) \in SUBSET Router
    BY <2>1
  <2> QED
    BY <2>1, <2>2, RoutersAreFinite, FS_Subset, FS_CardinalityType
<1>1. 0 \in S
  <2>1. Ball(r, L, 0) = {r}
    BY BallGrows
  <2>2. C(0) = 1
    BY <2>1, FS_Singleton
  <2> QED
    BY <2>2
<1>2. ASSUME NEW n \in S PROVE n + 1 \in S
  <2>0. n \in Nat /\ n + 1 \in Nat /\ (Ball(r, L, n) = N \/ C(n) > n)
    OBVIOUS
  <2> HIDE DEF S
  <2>1. /\ Ball(r, L, n + 1) = Grown(Ball(r, L, n), L)
        /\ Ball(r, L, n) \subseteq Ball(r, L, n + 1)
    <3>1. Ball(r, L, n + 1) = Grown(Ball(r, L, n), L)
      BY <2>0, BallGrows
    <3> QED
      BY <3>1 DEF Grown
  <2>2. CASE Ball(r, L, n + 1) = Ball(r, L, n)
    <3>1. Closed(Ball(r, L, n), L)
      BY <2>1, <2>2 DEF Closed, Grown
    <3>2. r \in Ball(r, L, n)
      <4>1. r \in Ball(r, L, 0) /\ Ball(r, L, 0) \subseteq Ball(r, L, n)
        BY <2>0, BallGrows, BallMonotone
      <4> QED
        BY <4>1
    <3>3. Ball(r, L, n) = N
      BY <1>0, <2>0, <3>1, <3>2 DEF Whole
    <3> QED
      BY <2>0, <2>2, <3>3 DEF S
  <2>3. CASE Ball(r, L, n + 1) # Ball(r, L, n)
    <3>1. C(n) < C(n + 1)
      <4>1. C(n) <= C(n + 1)
        BY <1>0, <2>0, <2>1, FS_Subset
      <4>2. C(n) # C(n + 1)
        BY <1>0, <2>0, <2>1, <2>3, FS_Subset
      <4>3. C(n) \in Nat /\ C(n + 1) \in Nat
        BY <1>0, <2>0
      <4> QED
        BY <4>1, <4>2, <4>3
    <3>2. Ball(r, L, n) # N
      <4>1. Ball(r, L, n + 1) \in SUBSET N
        BY <1>0, <2>0
      <4> QED
        BY <2>1, <2>3, <4>1
    <3>3. C(n) > n /\ C(n) \in Nat /\ C(n + 1) \in Nat
      BY <1>0, <2>0, <3>2
    <3>4. C(n + 1) > n + 1
      BY <2>0, <3>1, <3>3
    <3> QED
      BY <2>0, <3>4 DEF S
  <2> QED
    BY <2>2, <2>3
<1>3. \A n \in Nat : n \in S
  <2>1. S \in SUBSET Nat
    OBVIOUS
  <2> HIDE DEF S
  <2> QED
    BY <1>1, <1>2, <2>1, Induction
<1>4. K * K - 1 \in Nat /\ K * K \in Nat
  BY KAssumption
<1> SUFFICES ASSUME C(K * K - 1) > K * K - 1 PROVE Ball(r, L, K * K - 1) = N
  BY <1>3, <1>4
<1>5. Ball(r, L, K * K - 1) \in SUBSET N /\ C(K * K - 1) \in Nat
  BY <1>0, <1>4
<1>6. C(K * K - 1) <= Cardinality(Router)
  BY <1>5, FS_Subset, RoutersAreFinite
<1>7. C(K * K - 1) = Cardinality(Router)
  BY <1>4, <1>5, <1>6, RoutersAreFinite
<1>8. Ball(r, L, K * K - 1) = Router
  BY <1>5, <1>7, FS_Subset, RoutersAreFinite
<1> QED
  BY <1>5, <1>8

(* A shortest path from r to s has n hops. *)
Apart(r, s, L, n) == s \in Ball(r, L, n) /\ (n > 0 => s \notin Ball(r, L, n - 1))

LEMMA ApartIsUnique ==
  ASSUME NEW r \in Router, NEW s, NEW L, NEW m \in Nat, NEW n \in Nat,
         Apart(r, s, L, m), Apart(r, s, L, n)
  PROVE  m = n
<1>1. ASSUME NEW i \in Nat, NEW j \in Nat, s \in Ball(r, L, i), Apart(r, s, L, j), i < j
      PROVE  FALSE
  <2>1. j > 0 /\ j - 1 \in Nat /\ i <= j - 1
    BY <1>1
  <2> QED
    BY <1>1, <2>1, BallMonotone DEF Apart
<1> QED
  BY <1>1 DEF Apart

LEMMA ApartExists ==
  ASSUME NEW N \in SUBSET Router, NEW r \in N, NEW s \in N, NEW L, Whole(N, L)
  PROVE  \E n \in 0 .. K * K - 1 : Apart(r, s, L, n)
<1> DEFINE S == {n \in Nat : s \in Ball(r, L, n)}
<1>1. K * K - 1 \in S
  BY BallIsWhole, KAssumption
<1>2. PICK n \in S : \A m \in S : n <= m
  <2>1. S \in SUBSET Nat /\ S # {}
    BY <1>1
  <2> HIDE DEF S
  <2> QED
    BY <2>1, Least
<1>3. n \in 0 .. K * K - 1
  BY <1>1, <1>2, KAssumption
<1>4. n > 0 => n - 1 \in Nat /\ n - 1 \notin S
  BY <1>2
<1> QED
  BY <1>2, <1>3, <1>4 DEF Apart

LEMMA HopsAreApart ==
  ASSUME on \subseteq Router, Whole(on, MeshLinks), NEW r \in on, NEW s \in on
  PROVE  /\ Hops(r, s) \in 0 .. K * K - 1
         /\ Apart(r, s, MeshLinks, Hops(r, s))
         /\ \A n \in Nat : Apart(r, s, MeshLinks, n) => n = Hops(r, s)
<1>1. PICK n \in 0 .. K * K - 1 : Apart(r, s, MeshLinks, n)
  BY ApartExists
<1>2. n \in 0 .. K * K
  BY KAssumption
<1>3. Hops(r, s) \in 0 .. K * K /\ Apart(r, s, MeshLinks, Hops(r, s))
  BY <1>1, <1>2 DEF Hops, Apart
<1>4. ASSUME NEW m \in Nat, Apart(r, s, MeshLinks, m) PROVE m = Hops(r, s)
  <2>1. Hops(r, s) \in Nat
    BY <1>3, KAssumption
  <2> QED
    BY <1>3, <1>4, <2>1, ApartIsUnique
<1>5. n = Hops(r, s)
  BY <1>1, <1>4
<1> QED
  BY <1>1, <1>3, <1>4, <1>5

-----------------------------------------------------------------------------
(* The identifiers. *)

LEMMA Product ==
  ASSUME NEW k \in Nat, NEW i \in Nat, NEW j \in Nat, i < j
  PROVE  k * i + k <= k * j
<1> DEFINE d == j - i
<1>1. d \in Nat /\ d >= 1 /\ j = i + d
  OBVIOUS
<1> HIDE DEF d
<1>2. k * d >= k
  BY <1>1
<1>3. k * (i + d) = k * i + k * d
  BY <1>1
<1> QED
  BY <1>1, <1>2, <1>3

LEMMA IdRange ==
  ASSUME NEW r \in Router
  PROVE  Id(r) \in 0 .. K * K - 1
<1>1. Row(r) \in Nat /\ Col(r) \in Nat /\ Row(r) < K /\ Col(r) < K /\ K \in Nat
  BY RouterType, KAssumption DEF Coord
<1>2. K * Row(r) + K <= K * K
  BY <1>1, Product
<1>3. K * Row(r) \in Nat /\ K * K \in Nat
  BY <1>1
<1> QED
  BY <1>1, <1>2, <1>3 DEF Id

LEMMA IdInjective ==
  ASSUME NEW r \in Router, NEW s \in Router, Id(r) = Id(s)
  PROVE  r = s
<1>1. /\ Row(r) \in Nat /\ Col(r) \in Nat /\ Col(r) < K
      /\ Row(s) \in Nat /\ Col(s) \in Nat /\ Col(s) < K /\ K \in Nat
  BY RouterType, KAssumption DEF Coord
<1>2. K * Row(r) \in Nat /\ K * Row(s) \in Nat
  BY <1>1
<1>3. Row(r) < Row(s) => K * Row(r) + K <= K * Row(s)
  BY <1>1, Product
<1>4. Row(s) < Row(r) => K * Row(s) + K <= K * Row(r)
  BY <1>1, Product
<1>5. Row(r) = Row(s)
  <2> DEFINE a == K * Row(r)
             b == K * Row(s)
  <2>1. a + Col(r) = b + Col(s)
    BY DEF Id
  <2>2. a \in Nat /\ b \in Nat
    BY <1>2
  <2>3. (Row(r) < Row(s) => a + K <= b) /\ (Row(s) < Row(r) => b + K <= a)
    BY <1>3, <1>4
  <2> HIDE DEF a, b
  <2> QED
    BY <1>1, <2>1, <2>2, <2>3
<1>6. Col(r) = Col(s)
  BY <1>1, <1>2, <1>5 DEF Id
<1> QED
  BY <1>5, <1>6, RouterType

LEMMA LastIsMember ==
  ASSUME NEW S \in SUBSET Router, S # {}
  PROVE  \E r \in S : \A s \in S : Id(s) <= Id(r)
<1> DEFINE Above(r) == K * K - Id(r)
           I == {Above(r) : r \in S}
<1>1. \A r \in S : Above(r) \in Nat
  <2>1. \A r \in S : Id(r) \in 0 .. K * K - 1
    BY IdRange
  <2> QED
    BY <2>1, KAssumption
<1>2. I \in SUBSET Nat /\ I # {}
  BY <1>1
<1>3. PICK i \in I : \A j \in I : i <= j
  <2> HIDE DEF I
  <2> QED
    BY <1>2, Least
<1>4. PICK r \in S : \A s \in S : Above(r) <= Above(s)
  BY <1>3
<1>5. \A s \in S : Id(s) \in Nat
  BY IdType
<1>6. K * K \in Nat
  BY KAssumption
<1> QED
  BY <1>4, <1>5, <1>6

-----------------------------------------------------------------------------
(* The routers of a set in order. *)

Sorted(q, S) ==
  /\ q \in [1 .. Cardinality(S) -> S]
  /\ \A i, j \in 1 .. Cardinality(S) : i < j => Id(q[i]) < Id(q[j])

LEMMA SortedExists ==
  ASSUME NEW S \in SUBSET Router
  PROVE  \E q : Sorted(q, S)
<1> DEFINE P == {n \in Nat : \A R \in SUBSET Router : Cardinality(R) = n => \E q : Sorted(q, R)}
<1>0. \A R \in SUBSET Router : IsFiniteSet(R) /\ Cardinality(R) \in Nat
  BY RoutersAreFinite, FS_Subset, FS_CardinalityType
<1>1. 0 \in P
  <2> SUFFICES ASSUME NEW R \in SUBSET Router, Cardinality(R) = 0 PROVE \E q : Sorted(q, R)
    OBVIOUS
  <2>1. [i \in 1 .. 0 |-> i] \in [1 .. 0 -> R]
    OBVIOUS
  <2>2. \A i \in 1 .. 0 : FALSE
    OBVIOUS
  <2> QED
    BY <2>1, <2>2 DEF Sorted
<1>2. ASSUME NEW n \in P PROVE n + 1 \in P
  <2> SUFFICES ASSUME NEW R \in SUBSET Router, Cardinality(R) = n + 1 PROVE \E q : Sorted(q, R)
    OBVIOUS
  <2>1. n \in Nat /\ R # {}
    BY FS_EmptySet
  <2>2. PICK m \in R : \A s \in R : Id(s) <= Id(m)
    BY <2>1, LastIsMember
  <2> DEFINE Q == R \ {m}
  <2>3. Cardinality(Q) = n /\ Q \in SUBSET Router
    BY <1>0, <2>1, FS_RemoveElement
  <2>4. PICK q : Sorted(q, Q)
    BY <2>3
  <2> DEFINE p == [i \in 1 .. n + 1 |-> IF i = n + 1 THEN m ELSE q[i]]
  <2>5. \A i \in 1 .. n : q[i] \in Q
    BY <2>3, <2>4 DEF Sorted
  <2>6. \A s \in Q : Id(s) < Id(m)
    <3> SUFFICES ASSUME NEW s \in Q PROVE Id(s) < Id(m)
      OBVIOUS
    <3>1. Id(s) # Id(m) /\ Id(s) <= Id(m)
      BY <2>2, IdInjective
    <3>2. Id(s) \in Nat /\ Id(m) \in Nat
      BY IdType
    <3> QED
      BY <3>1, <3>2
  <2>7. p \in [1 .. n + 1 -> R]
    BY <2>1, <2>5
  <2>8. ASSUME NEW i \in 1 .. n + 1, NEW j \in 1 .. n + 1, i < j PROVE Id(p[i]) < Id(p[j])
    <3>1. i \in 1 .. n /\ i # n + 1 /\ p[i] = q[i]
      BY <2>1, <2>8
    <3>2. CASE j = n + 1
      <4>1. p[j] = m /\ q[i] \in Q
        BY <2>5, <3>1, <3>2
      <4> HIDE DEF p, Q
      <4> QED
        BY <2>6, <3>1, <4>1
    <3>3. CASE j # n + 1
      <4>1. j \in 1 .. n /\ p[j] = q[j]
        BY <2>1, <3>3
      <4>2. Id(q[i]) < Id(q[j])
        BY <2>3, <2>4, <2>8, <3>1, <4>1 DEF Sorted
      <4> HIDE DEF p, Q
      <4> QED
        BY <3>1, <4>1, <4>2
    <3> QED
      BY <3>2, <3>3
  <2> HIDE DEF p
  <2>9. Sorted(p, R)
    BY <2>7, <2>8 DEF Sorted
  <2> QED
    BY <2>9
<1>3. P \in SUBSET Nat
  OBVIOUS
<1> HIDE DEF P
<1>4. \A n \in Nat : n \in P
  BY <1>1, <1>2, <1>3, Induction
<1>5. Cardinality(S) \in P
  BY <1>0, <1>4
<1> QED
  BY <1>5 DEF P

LEMMA InOrderLists ==
  ASSUME NEW S \in SUBSET Router
  PROVE  /\ Cardinality(S) \in Nat
         /\ InOrder(S) \in [1 .. Cardinality(S) -> S]
         /\ \A i, j \in 1 .. Cardinality(S) : InOrder(S)[i] = InOrder(S)[j] => i = j
         /\ \A r \in S : \E i \in 1 .. Cardinality(S) : InOrder(S)[i] = r
<1> DEFINE n == Cardinality(S)
           q == InOrder(S)
<1>1. IsFiniteSet(S) /\ n \in Nat
  BY RoutersAreFinite, FS_Subset, FS_CardinalityType
<1>2. Sorted(q, S)
  BY SortedExists DEF InOrder, Sorted
<1>3. q \in [1 .. n -> S] /\ \A i, j \in 1 .. n : i < j => Id(q[i]) < Id(q[j])
  BY <1>2 DEF Sorted
<1> HIDE DEF q
<1>4. ASSUME NEW i \in 1 .. n, NEW j \in 1 .. n, q[i] = q[j] PROVE i = j
  <2>0. q[i] \in Router
    BY <1>3
  <2>1. Id(q[i]) \in Nat /\ Id(q[i]) = Id(q[j])
    BY <1>4, <2>0, IdType
  <2>2. ~(i < j) /\ ~(j < i)
    BY <1>3, <2>1
  <2> QED
    BY <1>1, <2>2
<1>5. IsFiniteSet(1 .. n) /\ Cardinality(1 .. n) = n
  <2>1. IsFiniteSet(1 .. n) /\ Cardinality(1 .. n) = IF 1 > n THEN 0 ELSE n - 1 + 1
    BY <1>1, FS_Interval
  <2> HIDE DEF n
  <2> QED
    BY <1>1, <2>1
<1>6. q \in Injection(1 .. n, S)
  BY <1>3, <1>4 DEF Injection, IsInjective
<1>7. q \in Surjection(1 .. n, S)
  BY <1>1, <1>5, <1>6, FS_Injection
<1>8. \A r \in S : \E i \in 1 .. n : q[i] = r
  BY <1>7 DEF Surjection
<1> QED
  BY <1>1, <1>3, <1>4, <1>8 DEF q

-----------------------------------------------------------------------------
(* Depths. *)

LEMMA ApartIsLeast ==
  ASSUME NEW r \in Router, NEW s, NEW L, NEW m \in Nat, NEW n \in Nat,
         Apart(r, s, L, n), s \in Ball(r, L, m)
  PROVE  n <= m
<1> SUFFICES ASSUME m < n PROVE FALSE
  OBVIOUS
<1>1. n > 0 /\ n - 1 \in Nat /\ m <= n - 1
  OBVIOUS
<1>2. Ball(r, L, m) \subseteq Ball(r, L, n - 1)
  BY <1>1, BallMonotone
<1> QED
  BY <1>1, <1>2 DEF Apart

LEMMA ApartNextTo ==
  ASSUME NEW r \in Router, NEW L, NEW s \in Router, NEW q \in Router, <<q, s>> \in L,
         NEW m \in Nat, NEW n \in Nat, Apart(r, q, L, m), Apart(r, s, L, n)
  PROVE  n <= m + 1
<1>1. s \in Ball(r, L, m + 1)
  BY BallExtends DEF Apart
<1> QED
  BY <1>1, ApartIsLeast

LEMMA ApartPredecessor ==
  ASSUME NEW r \in Router, NEW L, NEW s \in Router,
         NEW n \in Nat, n > 0, Apart(r, s, L, n)
  PROVE  \E q \in Router : <<q, s>> \in L /\ Apart(r, q, L, n - 1)
<1>1. n - 1 \in Nat /\ (n - 1) + 1 = n /\ s \in Ball(r, L, (n - 1) + 1) /\ s \notin Ball(r, L, n - 1)
  BY DEF Apart
<1>2. PICK q \in Ball(r, L, n - 1) : <<q, s>> \in L
  BY <1>1, BallExtends
<1>3. q \in Router
  BY <1>1, BallGrows
<1>4. ASSUME n - 1 > 0, q \in Ball(r, L, (n - 1) - 1) PROVE FALSE
  <2>1. (n - 1) - 1 \in Nat /\ ((n - 1) - 1) + 1 = n - 1
    BY <1>4
  <2>2. s \in Ball(r, L, ((n - 1) - 1) + 1)
    BY <1>2, <1>4, <2>1, BallExtends
  <2> QED
    BY <1>1, <2>1, <2>2
<1> QED
  BY <1>2, <1>3, <1>4 DEF Apart

Networked == on \subseteq Router /\ FabricManager \in on /\ Whole(on, MeshLinks)

LEMMA MeshLinksAre ==
  \A r, s : <<r, s>> \in MeshLinks <=> r \in on /\ s \in on /\ Adjacent(r, s)
  BY DEF MeshLinks

LEMMA DepthType ==
  ASSUME Networked, NEW r \in on
  PROVE  Depth(r) \in Nat /\ Apart(FabricManager, r, MeshLinks, Depth(r))
<1>1. Depth(r) \in 0 .. K * K - 1 /\ Apart(FabricManager, r, MeshLinks, Depth(r))
  BY HopsAreApart DEF Networked, Depth
<1> QED
  BY <1>1, KAssumption

LEMMA DepthOfManager ==
  ASSUME Networked, NEW r \in on
  PROVE  Depth(r) = 0 <=> r = FabricManager
<1>1. FabricManager \in on /\ FabricManager \in Router /\ Ball(FabricManager, MeshLinks, 0) = {FabricManager}
  BY BallGrows DEF Networked
<1>2. Depth(r) = 0 => r = FabricManager
  BY <1>1, DepthType DEF Apart
<1>3. Depth(FabricManager) <= 0 /\ Depth(FabricManager) \in Nat
  BY <1>1, DepthType, ApartIsLeast
<1> QED
  BY <1>2, <1>3

LEMMA DepthNextTo ==
  ASSUME Networked, NEW r \in on, NEW s \in on, Adjacent(r, s)
  PROVE  Depth(s) <= Depth(r) + 1
<1>1. FabricManager \in Router /\ r \in Router /\ s \in Router /\ <<r, s>> \in MeshLinks
  BY MeshLinksAre DEF Networked
<1>2. /\ Depth(r) \in Nat /\ Apart(FabricManager, r, MeshLinks, Depth(r))
      /\ Depth(s) \in Nat /\ Apart(FabricManager, s, MeshLinks, Depth(s))
  BY DepthType
<1> QED
  BY <1>1, <1>2, ApartNextTo

LEMMA DepthPredecessor ==
  ASSUME Networked, NEW s \in on, Depth(s) > 0
  PROVE  \E q \in on : Adjacent(q, s) /\ Depth(q) = Depth(s) - 1
<1>1. FabricManager \in Router /\ FabricManager \in on /\ s \in Router
  BY DEF Networked
<1>2. Depth(s) \in Nat /\ Apart(FabricManager, s, MeshLinks, Depth(s))
  BY DepthType
<1>3. PICK q \in Router : <<q, s>> \in MeshLinks /\ Apart(FabricManager, q, MeshLinks, Depth(s) - 1)
  BY <1>1, <1>2, ApartPredecessor
<1>4. q \in on /\ Adjacent(q, s)
  BY <1>3, MeshLinksAre
<1>5. Depth(s) - 1 \in Nat
  BY <1>2
<1>6. Depth(q) = Depth(s) - 1
  BY <1>1, <1>3, <1>4, <1>5, HopsAreApart DEF Networked, Depth
<1> QED
  BY <1>4, <1>6

-----------------------------------------------------------------------------
(* The breadth first search. *)

Fresh(b) == {q \in on \ b.visited : Adjacent(Head(b.queue), q)}

LEMMA InOrderIsSeq ==
  ASSUME on \subseteq Router, NEW S \in SUBSET on
  PROVE  InOrder(S) \in Seq(on) /\ Len(InOrder(S)) = Cardinality(S)
<1>1. Cardinality(S) \in Nat /\ InOrder(S) \in [1 .. Cardinality(S) -> S]
  BY InOrderLists
<1>2. InOrder(S) \in [1 .. Cardinality(S) -> on]
  BY <1>1
<1> QED
  BY <1>1, <1>2

LEMMA ExploreType ==
  ASSUME on \subseteq Router, NEW b \in Walks, b.queue # <<>>
  PROVE  /\ Explore(b) \in Walks
         /\ Explore(b).visited = b.visited \cup Fresh(b)
         /\ Explore(b).links =
              b.links \cup ({b.queue[1]} \X Fresh(b)) \cup (Fresh(b) \X {b.queue[1]})
         /\ Explore(b).queue = Tail(b.queue) \o InOrder(Fresh(b))
         /\ Head(b.queue) = b.queue[1] /\ b.queue[1] \in on
<1>1. /\ b.queue \in Seq(on) /\ b.visited \in SUBSET on /\ b.links \in SUBSET (on \X on)
  BY DEF Walks
<1>2. Head(b.queue) = b.queue[1] /\ Head(b.queue) \in on /\ Tail(b.queue) \in Seq(on)
  BY <1>1
<1>3. Fresh(b) \in SUBSET on
  BY DEF Fresh
<1>4. InOrder(Fresh(b)) \in Seq(on)
  BY <1>3, InOrderIsSeq
<1>5. Tail(b.queue) \o InOrder(Fresh(b)) \in Seq(on)
  BY <1>2, <1>4
<1>6. Explore(b) = [queue   |-> Tail(b.queue) \o InOrder(Fresh(b)),
                    visited |-> b.visited \cup Fresh(b),
                    links   |-> b.links \cup ({Head(b.queue)} \X Fresh(b)) \cup (Fresh(b) \X {Head(b.queue)})]
  BY DEF Explore, Fresh
<1> QED
  BY <1>1, <1>2, <1>3, <1>5, <1>6 DEF Walks

(* The new queue, router by router. *)
LEMMA ExploreQueue ==
  ASSUME on \subseteq Router, NEW b \in Walks, b.queue # <<>>,
         NEW c, c = Explore(b).queue, NEW m, m = Len(b.queue) - 1
  PROVE  /\ m \in Nat /\ Len(c) \in Nat /\ m <= Len(c)
         /\ \A i \in 1 .. m : c[i] = b.queue[i + 1]
         /\ \A i \in m + 1 .. Len(c) : c[i] \in Fresh(b)
         /\ \A i, j \in m + 1 .. Len(c) : c[i] = c[j] => i = j
         /\ \A r \in Fresh(b) : \E i \in m + 1 .. Len(c) : c[i] = r
<1> DEFINE t == Tail(b.queue)
           k == Cardinality(Fresh(b))
           o == InOrder(Fresh(b))
<1>1. Fresh(b) \in SUBSET Router /\ Fresh(b) \in SUBSET on /\ b.queue \in Seq(on)
  BY DEF Fresh, Walks
<1>2. t \in Seq(on) /\ Len(t) = m /\ m \in Nat /\ \A i \in 1 .. m : t[i] = b.queue[i + 1]
  BY <1>1
<1>3. o \in Seq(on) /\ Len(o) = k /\ k \in Nat
  BY <1>1, InOrderIsSeq, InOrderLists
<1>4. /\ \A i \in 1 .. k : o[i] \in Fresh(b)
      /\ \A i, j \in 1 .. k : o[i] = o[j] => i = j
      /\ \A r \in Fresh(b) : \E i \in 1 .. k : o[i] = r
  BY <1>1, InOrderLists
<1>5. c = t \o o
  BY ExploreType
<1> HIDE DEF t, k, o
<1>6. /\ Len(c) = m + k
      /\ \A i \in 1 .. m + k : c[i] = IF i <= m THEN t[i] ELSE o[i - m]
  <2>1. /\ Len(t \o o) = Len(t) + Len(o)
        /\ \A i \in 1 .. Len(t) + Len(o) : (t \o o)[i] = IF i <= Len(t) THEN t[i] ELSE o[i - Len(t)]
    BY <1>2, <1>3, ConcatProperties
  <2> QED
    BY <1>2, <1>3, <1>5, <2>1
<1>7. ASSUME NEW i \in m + 1 .. m + k PROVE c[i] = o[i - m] /\ i - m \in 1 .. k
  <2>1. i \in 1 .. m + k /\ ~(i <= m) /\ i - m \in 1 .. k
    BY <1>2, <1>3
  <2> QED
    BY <1>6, <2>1
<1>8. \A i \in 1 .. k : c[m + i] = o[i] /\ m + i \in m + 1 .. m + k
  <2> SUFFICES ASSUME NEW i \in 1 .. k PROVE c[m + i] = o[i] /\ m + i \in m + 1 .. m + k
    OBVIOUS
  <2>1. m + i \in m + 1 .. m + k /\ (m + i) - m = i
    BY <1>2, <1>3
  <2> QED
    BY <1>7, <2>1
<1>9. ASSUME NEW i \in 1 .. m PROVE c[i] = b.queue[i + 1]
  <2>1. i \in 1 .. m + k /\ i <= m
    BY <1>2, <1>3
  <2>2. c[i] = t[i]
    BY <1>6, <2>1
  <2> QED
    BY <1>2, <2>2
<1>10. ASSUME NEW i \in m + 1 .. m + k PROVE c[i] \in Fresh(b)
  BY <1>4, <1>7
<1>11. ASSUME NEW i \in m + 1 .. m + k, NEW j \in m + 1 .. m + k, c[i] = c[j] PROVE i = j
  <2>1. i - m \in 1 .. k /\ j - m \in 1 .. k /\ o[i - m] = o[j - m]
    BY <1>7, <1>11
  <2>2. i - m = j - m
    BY <1>4, <2>1
  <2> QED
    BY <1>2, <1>3, <2>2
<1>12. \A r \in Fresh(b) : \E i \in m + 1 .. m + k : c[i] = r
  BY <1>4, <1>8
<1> QED
  BY <1>2, <1>3, <1>6, <1>9, <1>10, <1>11, <1>12

Done(b) == {r \in b.visited : \A i \in 1 .. Len(b.queue) : b.queue[i] # r}

QueueOK(b) ==
  /\ \A i \in 1 .. Len(b.queue) : b.queue[i] \in b.visited
  /\ \A i, j \in 1 .. Len(b.queue) : b.queue[i] = b.queue[j] => i = j
  /\ \A r \in Done(b), s \in on : Adjacent(r, s) => s \in b.visited

(* The queue is sorted by depth; what is not deeper than its first router  *)
(* has been visited.                                                       *)
DepthOK(b) ==
  /\ \A i, j \in 1 .. Len(b.queue) : i < j => Depth(b.queue[i]) <= Depth(b.queue[j])
  /\ \A i \in 1 .. Len(b.queue) : Depth(b.queue[i]) <= Depth(b.queue[1]) + 1
  /\ b.queue # <<>> => \A r \in on : Depth(r) <= Depth(b.queue[1]) => r \in b.visited

(* The links form a tree: only one of them leads upwards from a router. *)
LinksOK(b) ==
  /\ \A r, s \in on : <<r, s>> \in b.links =>
       /\ r \in b.visited /\ s \in b.visited /\ <<s, r>> \in b.links /\ Adjacent(r, s)
       /\ Depth(s) = Depth(r) + 1 \/ Depth(r) = Depth(s) + 1
  /\ \A r, p, q \in on :
       /\ <<r, p>> \in b.links /\ Depth(p) < Depth(r)
       /\ <<r, q>> \in b.links /\ Depth(q) < Depth(r)
       => p = q

JoinOK(b) == Whole(b.visited, b.links)

LEMMA ExploreQueueOK ==
  ASSUME on \subseteq Router, NEW b \in Walks, b.queue # <<>>, QueueOK(b)
  PROVE  /\ QueueOK(Explore(b))
         /\ Done(Explore(b)) = Done(b) \cup {b.queue[1]} /\ b.queue[1] \notin Done(b)
<1> DEFINE h == b.queue[1]
           V == b.visited
           F == Fresh(b)
           c == Explore(b).queue
           m == Len(b.queue) - 1
<1>0. /\ Len(b.queue) \in Nat /\ Len(b.queue) >= 1 /\ 1 \in 1 .. Len(b.queue) /\ h \in V
      /\ Explore(b).visited = V \cup F /\ V \in SUBSET on
  <2>1. b.queue \in Seq(on) /\ V \in SUBSET on
    BY DEF Walks
  <2>2. Len(b.queue) \in Nat /\ Len(b.queue) >= 1
    BY <2>1
  <2> QED
    BY <2>1, <2>2, ExploreType DEF QueueOK
<1>1. /\ m \in Nat /\ Len(c) \in Nat /\ m <= Len(c)
      /\ \A i \in 1 .. m : c[i] = b.queue[i + 1]
      /\ \A i \in m + 1 .. Len(c) : c[i] \in F
      /\ \A i, j \in m + 1 .. Len(c) : c[i] = c[j] => i = j
      /\ \A r \in F : \E i \in m + 1 .. Len(c) : c[i] = r
  BY ExploreQueue
<1>2. /\ \A i \in 1 .. Len(b.queue) : b.queue[i] \in V
      /\ \A i, j \in 1 .. Len(b.queue) : b.queue[i] = b.queue[j] => i = j
      /\ \A r \in Done(b), s \in on : Adjacent(r, s) => s \in V
  BY DEF QueueOK
<1>3. \A r \in F : r \notin V
  BY DEF Fresh
<1>4. Done(b) = {r \in V : \A i \in 1 .. Len(b.queue) : b.queue[i] # r}
  BY DEF Done
<1>5. Done(Explore(b)) = {r \in V \cup F : \A i \in 1 .. Len(c) : c[i] # r}
  BY <1>0 DEF Done
<1>6. \A s \in on : Adjacent(h, s) => s \in V \cup F
  BY ExploreType DEF Fresh
<1> DEFINE n == Len(b.queue)
           l == Len(c)
           Q == b.queue
<1>7. n \in Nat /\ n >= 1 /\ m = n - 1 /\ h = Q[1] /\ l \in Nat /\ m <= l
  BY <1>0, <1>1
<1>8. \A i \in 1 .. m : i \in 1 .. l /\ i + 1 \in 1 .. n /\ c[i] = Q[i + 1] /\ c[i] \in V /\ c[i] # h
  <2> SUFFICES ASSUME NEW i \in 1 .. m
               PROVE  i \in 1 .. l /\ i + 1 \in 1 .. n /\ c[i] = Q[i + 1] /\ c[i] \in V /\ c[i] # h
    OBVIOUS
  <2>1. i \in 1 .. l /\ i + 1 \in 1 .. n /\ i + 1 # 1 /\ 1 \in 1 .. n
    BY <1>7
  <2> QED
    BY <1>1, <1>2, <2>1
<1>9. \A i \in 1 .. l : i \in 1 .. m \/ i \in m + 1 .. l
  BY <1>7
<1>10. \A i \in 1 .. n : i = 1 \/ (i - 1 \in 1 .. m /\ c[i - 1] = Q[i])
  <2> SUFFICES ASSUME NEW i \in 1 .. n, i # 1 PROVE i - 1 \in 1 .. m /\ c[i - 1] = Q[i]
    OBVIOUS
  <2>1. i - 1 \in 1 .. m /\ (i - 1) + 1 = i
    BY <1>7
  <2> QED
    BY <1>8, <2>1
<1>11. \A i \in m + 1 .. l : i \in 1 .. l
  BY <1>7
<1>12. Done(b) = {r \in V : \A i \in 1 .. n : Q[i] # r} /\ 1 \in 1 .. n
  BY <1>4, <1>7
<1> HIDE DEF c, V, F, n, l, Q, m, h
<1>13. \A i \in 1 .. l : c[i] \in V \cup F
  BY <1>1, <1>8, <1>9 DEF l
<1>14. ASSUME NEW i \in 1 .. l, NEW j \in 1 .. l, c[i] = c[j] PROVE i = j
  <2>1. CASE i \in 1 .. m /\ j \in 1 .. m
    <3>1. Q[i + 1] = Q[j + 1] /\ i + 1 \in 1 .. n /\ j + 1 \in 1 .. n
      BY <1>8, <1>14, <2>1
    <3>2. i + 1 = j + 1
      BY <1>2, <3>1 DEF Q, n
    <3> QED
      BY <1>7, <2>1, <3>2
  <2>2. CASE i \in m + 1 .. l /\ j \in m + 1 .. l
    BY <1>1, <1>14, <2>2 DEF l
  <2>3. CASE i \in 1 .. m /\ j \in m + 1 .. l
    BY <1>1, <1>3, <1>8, <1>14, <2>3 DEF l
  <2>4. CASE j \in 1 .. m /\ i \in m + 1 .. l
    BY <1>1, <1>3, <1>8, <1>14, <2>4 DEF l
  <2> QED
    BY <1>9, <2>1, <2>2, <2>3, <2>4
<1>15. Done(Explore(b)) = Done(b) \cup {h}
  <2>1. ASSUME NEW r \in Done(Explore(b)) PROVE r \in Done(b) \cup {h}
    <3>1. r \in V \cup F /\ \A i \in 1 .. l : c[i] # r
      BY <1>5, <2>1 DEF l
    <3>2. r \in V
      BY <1>1, <1>11, <3>1 DEF l
    <3>3. \A i \in 1 .. n : i = 1 \/ Q[i] # r
      BY <1>8, <1>10, <3>1
    <3> QED
      BY <1>7, <1>12, <3>2, <3>3
  <2>2. ASSUME NEW r \in Done(b) \cup {h} PROVE r \in Done(Explore(b))
    <3>1. r \in V
      BY <1>0, <1>12, <2>2
    <3>2. \A i \in 1 .. l : c[i] # r
      BY <1>1, <1>3, <1>8, <1>9, <1>12, <2>2, <3>1 DEF l
    <3> QED
      BY <1>5, <3>1, <3>2 DEF l
  <2> QED
    BY <2>1, <2>2
<1>16. h \notin Done(b)
  BY <1>7, <1>12
<1>17. ASSUME NEW r \in Done(Explore(b)), NEW s \in on, Adjacent(r, s)
       PROVE  s \in V \cup F
  BY <1>2, <1>6, <1>15, <1>17
<1>18. QueueOK(Explore(b))
  BY <1>0, <1>13, <1>14, <1>17 DEF QueueOK, c, l
<1> QED
  BY <1>15, <1>16, <1>18 DEF h

(* The routers that are found are one deeper than the one they are found   *)
(* from.                                                                   *)
LEMMA FreshDepth ==
  ASSUME Networked, NEW b \in Walks, b.queue # <<>>, DepthOK(b), NEW s \in Fresh(b)
  PROVE  s \in on /\ Depth(s) = Depth(b.queue[1]) + 1
<1>1. s \in on /\ s \notin b.visited /\ b.queue[1] \in on /\ Adjacent(b.queue[1], s)
  BY ExploreType DEF Fresh, Networked
<1>2. Depth(s) <= Depth(b.queue[1]) + 1
  BY <1>1, DepthNextTo
<1>3. ~(Depth(s) <= Depth(b.queue[1]))
  BY <1>1 DEF DepthOK
<1>4. Depth(s) \in Nat /\ Depth(b.queue[1]) \in Nat
  BY <1>1, DepthType
<1> QED
  BY <1>1, <1>2, <1>3, <1>4

LEMMA ExploreDepthOK ==
  ASSUME Networked, NEW b \in Walks, b.queue # <<>>, QueueOK(b), DepthOK(b)
  PROVE  DepthOK(Explore(b))
<1> DEFINE Q == b.queue
           n == Len(Q)
           c == Explore(b).queue
           l == Len(c)
           m == n - 1
           d == Depth(Q[1])
<1>0. on \subseteq Router
  BY DEF Networked
<1>1. /\ m \in Nat /\ l \in Nat /\ m <= l
      /\ \A i \in 1 .. m : c[i] = Q[i + 1]
      /\ \A i \in m + 1 .. l : c[i] \in Fresh(b)
  <2>1. c = Explore(b).queue /\ m = Len(b.queue) - 1
    OBVIOUS
  <2> HIDE DEF c, m
  <2> QED
    BY <1>0, <2>1, ExploreQueue
<1>2. /\ Explore(b) \in Walks /\ Explore(b).visited = b.visited \cup Fresh(b) /\ Q[1] \in on
      /\ QueueOK(Explore(b)) /\ n \in Nat
  <2>1. Q \in Seq(on)
    BY DEF Walks
  <2> QED
    BY <1>0, <2>1, ExploreType, ExploreQueueOK
<1>3. \A i \in 1 .. l : c[i] \in on
  <2>1. c \in Seq(on)
    BY <1>2 DEF Walks
  <2> QED
    BY <2>1
<1>4. \A r \in on : Depth(r) \in Nat
  BY DepthType
<1>5. /\ \A i, j \in 1 .. n : i < j => Depth(Q[i]) <= Depth(Q[j])
      /\ \A i \in 1 .. n : Depth(Q[i]) <= d + 1
      /\ \A r \in on : Depth(r) <= d => r \in b.visited
  BY DEF DepthOK
<1>6. \A i \in m + 1 .. l : Depth(c[i]) = d + 1
  BY <1>1, FreshDepth
<1>7. \A i \in 1 .. m : Depth(c[i]) = Depth(Q[i + 1]) /\ i + 1 \in 1 .. n
  BY <1>1, <1>2
<1> HIDE DEF c, l, d, Q
<1>8. ASSUME NEW i \in 1 .. l PROVE d <= Depth(c[i]) /\ Depth(c[i]) <= d + 1
  <2>1. CASE i \in 1 .. m
    <3>1. i + 1 \in 1 .. n /\ 1 \in 1 .. n /\ 1 < i + 1 /\ Depth(c[i]) = Depth(Q[i + 1])
      BY <1>2, <1>7, <2>1
    <3>2. Depth(Q[1]) <= Depth(Q[i + 1]) /\ Depth(Q[i + 1]) <= d + 1
      BY <1>5, <3>1
    <3> QED
      BY <3>1, <3>2 DEF d
  <2>2. CASE i \in m + 1 .. l
    <3>1. d \in Nat
      BY <1>2, <1>4 DEF d
    <3> QED
      BY <1>6, <2>2, <3>1
  <2> QED
    BY <1>1, <2>1, <2>2
<1>9. ASSUME NEW i \in 1 .. l, NEW j \in 1 .. l, i < j PROVE Depth(c[i]) <= Depth(c[j])
  <2>1. CASE j \in 1 .. m
    <3>1. i \in 1 .. m
      BY <1>9, <2>1
    <3>2. i + 1 \in 1 .. n /\ j + 1 \in 1 .. n /\ i + 1 < j + 1
      BY <1>7, <1>9, <2>1, <3>1
    <3>3. Depth(Q[i + 1]) <= Depth(Q[j + 1])
      BY <1>5, <3>2
    <3> QED
      BY <1>7, <2>1, <3>1, <3>3
  <2>2. CASE j \in m + 1 .. l
    <3>1. Depth(c[j]) = d + 1
      BY <1>6, <2>2
    <3> QED
      BY <1>8, <3>1
  <2> QED
    BY <1>1, <2>1, <2>2
<1>10. d \in Nat
  BY <1>2, <1>4 DEF d
<1>11. ASSUME NEW i \in 1 .. l PROVE Depth(c[i]) <= Depth(c[1]) + 1
  <2>1. 1 \in 1 .. l
    BY <1>1
  <2>2. Depth(c[1]) \in Nat /\ Depth(c[i]) \in Nat
    BY <1>3, <1>4, <2>1
  <2> QED
    BY <1>8, <1>10, <2>1, <2>2
<1>12. ASSUME c # <<>>, NEW r \in on, Depth(r) <= Depth(c[1])
       PROVE  r \in b.visited \cup Fresh(b)
  <2>1. 1 \in 1 .. l
    <3>1. c \in Seq(on)
      BY <1>2 DEF Walks, c
    <3>2. l # 0
      BY <1>12, <3>1 DEF l
    <3> QED
      BY <1>1, <3>2
  <2>2. Depth(r) \in Nat /\ Depth(c[1]) \in Nat
    BY <1>3, <1>4, <2>1
  <2>3. CASE Depth(r) <= d
    BY <1>5, <2>3
  <2>4. CASE Depth(r) = d + 1 /\ Depth(c[1]) = d + 1
    <3>1. PICK p \in on : Adjacent(p, r) /\ Depth(p) = d
      <4>1. Depth(r) > 0 /\ Depth(r) - 1 = d
        BY <1>10, <2>4
      <4> QED
        BY <4>1, DepthPredecessor
    <3>2. p \in b.visited
      BY <1>5, <1>10, <3>1
    <3>3. ASSUME NEW i \in 1 .. l, c[i] = p PROVE FALSE
      <4>1. Depth(c[1]) <= Depth(c[i])
        <5>1. i = 1 \/ 1 < i
          OBVIOUS
        <5> QED
          BY <1>9, <2>1, <2>2, <3>3, <5>1
      <4> QED
        BY <1>10, <2>4, <3>1, <3>3, <4>1
    <3>4. p \in Done(Explore(b))
      BY <1>2, <3>2, <3>3 DEF Done, c, l
    <3> QED
      BY <1>2, <3>1, <3>4 DEF QueueOK
  <2> QED
    BY <1>8, <1>10, <1>12, <2>1, <2>2, <2>3, <2>4
<1> QED
  BY <1>2, <1>9, <1>11, <1>12 DEF DepthOK, c, l

LEMMA ExploreLinksOK ==
  ASSUME Networked, NEW b \in Walks, b.queue # <<>>, QueueOK(b), DepthOK(b), LinksOK(b)
  PROVE  LinksOK(Explore(b))
<1> DEFINE h == b.queue[1]
           V == b.visited
           F == Fresh(b)
           X == Explore(b)
<1>0. on \subseteq Router
  BY DEF Networked
<1>1. /\ X.visited = V \cup F /\ X.links = b.links \cup ({h} \X F) \cup (F \X {h})
      /\ h \in on /\ h \in V
  <2>1. b.queue \in Seq(on)
    BY DEF Walks
  <2>2. 1 \in 1 .. Len(b.queue)
    BY <2>1
  <2> QED
    BY <1>0, <2>2, ExploreType DEF QueueOK
<1>2. \A s \in F : s \in on /\ s \notin V /\ Adjacent(h, s) /\ Adjacent(s, h)
  BY <1>0, ExploreType, AdjacentSymmetric DEF Fresh
<1>3. \A s \in F : Depth(s) = Depth(h) + 1
  BY FreshDepth
<1>4. \A r, s \in on : <<r, s>> \in X.links <=>
        <<r, s>> \in b.links \/ (r = h /\ s \in F) \/ (s = h /\ r \in F)
  BY <1>1
<1>5. Depth(h) \in Nat
  BY <1>1, DepthType
<1> HIDE DEF h, V, F, X
<1>6. \A r, s \in on : <<r, s>> \in b.links =>
        /\ r \in V /\ s \in V /\ <<s, r>> \in b.links /\ Adjacent(r, s)
        /\ Depth(s) = Depth(r) + 1 \/ Depth(r) = Depth(s) + 1
  BY DEF LinksOK, V
<1>7. \A r, p, q \in on :
        /\ <<r, p>> \in b.links /\ Depth(p) < Depth(r)
        /\ <<r, q>> \in b.links /\ Depth(q) < Depth(r)
        => p = q
  BY DEF LinksOK
<1>8. ASSUME NEW r \in on, NEW s \in on, <<r, s>> \in X.links
      PROVE  /\ r \in X.visited /\ s \in X.visited /\ <<s, r>> \in X.links /\ Adjacent(r, s)
             /\ Depth(s) = Depth(r) + 1 \/ Depth(r) = Depth(s) + 1
  BY <1>1, <1>2, <1>3, <1>4, <1>6, <1>8
<1>9. ASSUME NEW r \in on, NEW p \in on, <<r, p>> \in X.links, Depth(p) < Depth(r)
      PROVE  (r \in F /\ p = h) \/ (r \in V /\ <<r, p>> \in b.links)
  <2>1. CASE <<r, p>> \in b.links
    BY <1>6, <2>1
  <2>2. CASE r = h /\ p \in F
    BY <1>3, <1>5, <1>9, <2>2
  <2> QED
    BY <1>4, <1>9, <2>1, <2>2
<1>10. ASSUME NEW r \in on, NEW p \in on, NEW q \in on,
              <<r, p>> \in X.links, Depth(p) < Depth(r),
              <<r, q>> \in X.links, Depth(q) < Depth(r)
       PROVE  p = q
  BY <1>2, <1>7, <1>9, <1>10
<1> QED
  BY <1>8, <1>10 DEF LinksOK, X

LEMMA ExploreJoinOK ==
  ASSUME on \subseteq Router, NEW b \in Walks, b.queue # <<>>, QueueOK(b), JoinOK(b)
  PROVE  JoinOK(Explore(b))
<1> DEFINE h == b.queue[1]
           V == b.visited
           F == Fresh(b)
           X == Explore(b)
<1>1. /\ X.visited = V \cup F /\ X.links = b.links \cup ({h} \X F) \cup (F \X {h})
      /\ h \in on /\ h \in V /\ V \subseteq on /\ F \subseteq on
  <2>1. b.queue \in Seq(on) /\ V \subseteq on
    BY DEF Walks
  <2>2. 1 \in 1 .. Len(b.queue)
    BY <2>1
  <2> QED
    BY <2>1, <2>2, ExploreType DEF QueueOK, Fresh
<1>2. b.links \subseteq V \X V /\ \A S \in SUBSET V : Closed(S, b.links) => S \in {{}, V}
  BY DEF JoinOK, Whole
<1> HIDE DEF h, V, F, X
<1>3. X.links \subseteq X.visited \X X.visited
  BY <1>1, <1>2
<1>4. ASSUME NEW S \in SUBSET X.visited, Closed(S, X.links) PROVE S \in {{}, X.visited}
  <2>1. Closed(S \cap V, b.links)
    <3> SUFFICES ASSUME NEW q \in S \cap V, NEW s \in Router, <<q, s>> \in b.links
                 PROVE  s \in S \cap V
      BY DEF Closed
    <3>1. s \in V
      BY <1>2
    <3>2. <<q, s>> \in X.links
      BY <1>1
    <3>3. s \in S
      BY <1>4, <3>2 DEF Closed
    <3> QED
      BY <3>1, <3>3
  <2>2. S \cap V \in {{}, V}
    BY <1>2, <2>1
  <2>3. \A s \in F : <<h, s>> \in X.links /\ <<s, h>> \in X.links /\ s \in Router /\ h \in Router
    BY <1>1
  <2>4. CASE h \in S
    <3>1. V \subseteq S
      BY <1>1, <2>2, <2>4
    <3>2. F \subseteq S
      BY <1>4, <2>3, <2>4 DEF Closed
    <3> QED
      BY <1>1, <3>1, <3>2
  <2>5. CASE h \notin S
    <3>1. S \cap V = {}
      BY <1>1, <2>2, <2>5
    <3>2. \A s \in F : s \notin S
      BY <1>4, <2>3, <2>5 DEF Closed
    <3> QED
      BY <1>1, <3>1, <3>2
  <2> QED
    BY <2>4, <2>5
<1> QED
  BY <1>3, <1>4 DEF JoinOK, Whole, X

Walk(n) == Turns([b \in Walks |-> Explore(b)], FirstWalk, n)

WalkOK(b) ==
  /\ b \in Walks /\ FabricManager \in b.visited
  /\ QueueOK(b) /\ DepthOK(b) /\ LinksOK(b) /\ JoinOK(b)

LEMMA FirstWalkOK ==
  ASSUME Networked
  PROVE  WalkOK(FirstWalk) /\ Done(FirstWalk) = {}
<1> DEFINE f == FabricManager
<1>1. f \in on /\ on \subseteq Router
  BY DEF Networked
<1>2. /\ FirstWalk.queue = <<f>> /\ FirstWalk.visited = {f} /\ FirstWalk.links = {}
      /\ FirstWalk \in Walks
  BY <1>1 DEF FirstWalk, Walks
<1>3. Len(<<f>>) = 1 /\ <<f>>[1] = f /\ \A i \in 1 .. 1 : i = 1
  OBVIOUS
<1>4. QueueOK(FirstWalk) /\ Done(FirstWalk) = {}
  BY <1>2, <1>3 DEF QueueOK, Done
<1>5. DepthOK(FirstWalk)
  <2>1. Depth(f) = 0
    BY <1>1, DepthOfManager
  <2>2. \A r \in on : Depth(r) <= 0 => r = f
    <3> SUFFICES ASSUME NEW r \in on, Depth(r) <= 0 PROVE r = f
      OBVIOUS
    <3>1. Depth(r) \in Nat
      BY DepthType
    <3> QED
      BY <3>1, DepthOfManager
  <2>3. \A i, j \in 1 .. Len(FirstWalk.queue) : ~(i < j) /\ i = 1
    BY <1>2, <1>3
  <2>4. FirstWalk.queue[1] = f
    BY <1>2, <1>3
  <2> QED
    BY <1>2, <2>1, <2>2, <2>3, <2>4 DEF DepthOK
<1>6. LinksOK(FirstWalk)
  BY <1>2 DEF LinksOK
<1>7. JoinOK(FirstWalk)
  BY <1>2 DEF JoinOK, Whole
<1> QED
  BY <1>2, <1>4, <1>5, <1>6, <1>7 DEF WalkOK

LEMMA WalkInvariant ==
  ASSUME Networked
  PROVE  \A n \in Nat : WalkOK(Walk(n)) /\ (Walk(n).queue = <<>> \/ Cardinality(Done(Walk(n))) = n)
<1> DEFINE S == {n \in Nat : WalkOK(Walk(n))
                             /\ (Walk(n).queue = <<>> \/ Cardinality(Done(Walk(n))) = n)}
           T == [b \in Walks |-> Explore(b)]
<1>0. on \subseteq Router /\ IsFiniteSet(on)
  BY RoutersAreFinite, FS_Subset DEF Networked
<1>1. 0 \in S
  <2>1. Walk(0) = FirstWalk
    BY TurnByTurn DEF Walk
  <2> QED
    BY <2>1, FirstWalkOK, FS_EmptySet
<1>2. ASSUME NEW n \in S PROVE n + 1 \in S
  <2> DEFINE b == Walk(n)
             c == Walk(n + 1)
  <2>1. n \in Nat /\ WalkOK(b) /\ (b.queue = <<>> \/ Cardinality(Done(b)) = n)
    OBVIOUS
  <2>2. c = T[b]
    BY <2>1, TurnByTurn DEF Walk
  <2>3. b \in Walks /\ c = Explore(b)
    BY <2>1, <2>2 DEF WalkOK
  <2>4. WalkOK(c) /\ (c.queue = <<>> \/ Cardinality(Done(c)) = n + 1)
    <3> HIDE DEF b, c, S
    <3>1. CASE b.queue = <<>>
      <4>1. c = b
        BY <2>3, <3>1 DEF Explore
      <4> QED
        BY <2>1, <3>1, <4>1
    <3>2. CASE b.queue # <<>>
      <4>1. QueueOK(b) /\ DepthOK(b) /\ LinksOK(b) /\ JoinOK(b) /\ FabricManager \in b.visited
        BY <2>1 DEF WalkOK
      <4>2. QueueOK(c) /\ DepthOK(c) /\ LinksOK(c) /\ JoinOK(c)
        BY <1>0, <2>3, <3>2, <4>1, ExploreQueueOK, ExploreDepthOK, ExploreLinksOK, ExploreJoinOK
      <4>3. c \in Walks /\ FabricManager \in c.visited
        BY <1>0, <2>3, <3>2, <4>1, ExploreType
      <4>4. Done(c) = Done(b) \cup {b.queue[1]} /\ b.queue[1] \notin Done(b)
        BY <1>0, <2>3, <3>2, <4>1, ExploreQueueOK
      <4>5. IsFiniteSet(Done(b))
        <5>1. Done(b) \in SUBSET on
          BY <2>3 DEF Done, Walks
        <5> QED
          BY <1>0, <5>1, FS_Subset
      <4>6. Cardinality(Done(c)) = n + 1
        BY <2>1, <3>2, <4>4, <4>5, FS_AddElement
      <4> QED
        BY <4>2, <4>3, <4>6 DEF WalkOK
    <3> QED
      BY <3>1, <3>2
  <2> QED
    BY <2>1, <2>4
<1>3. S \in SUBSET Nat
  OBVIOUS
<1> HIDE DEF S
<1>4. \A n \in Nat : n \in S
  BY <1>1, <1>2, <1>3, Induction
<1> QED
  BY <1>4 DEF S

(* The queue of _BFS runs empty, every router that is on has been reached, *)
(* and the links of _updown_adj_mtx form one tree of shortest paths from   *)
(* the fabric manager: over links, both ways, in which no router has two   *)
(* neighbours that are closer to it.                                       *)
THEOREM TreeOfShortestPaths ==
  ASSUME Networked
  PROVE  /\ Whole(on, Tree)
         /\ \A r, s \in on : <<r, s>> \in Tree =>
              /\ Adjacent(r, s) /\ <<s, r>> \in Tree
              /\ Depth(s) = Depth(r) + 1 \/ Depth(r) = Depth(s) + 1
         /\ \A r, p, q \in on :
              /\ <<r, p>> \in Tree /\ Depth(p) < Depth(r)
              /\ <<r, q>> \in Tree /\ Depth(q) < Depth(r)
              => p = q
<1> DEFINE b == Walk(K * K)
<1>1. Tree = b.links
  BY DEF Tree, Walk
<1>2. K * K \in Nat
  BY KAssumption
<1>3. WalkOK(b) /\ (b.queue = <<>> \/ Cardinality(Done(b)) = K * K)
  BY <1>2, WalkInvariant
<1> HIDE DEF b
<1>4. /\ b.visited \in SUBSET on /\ on \in SUBSET Router /\ b.queue \in Seq(on)
      /\ FabricManager \in b.visited
  BY <1>3 DEF WalkOK, Walks, Networked
<1>5. b.queue = <<>>
  <2> SUFFICES ASSUME b.queue # <<>> PROVE FALSE
    OBVIOUS
  <2>1. 1 \in 1 .. Len(b.queue)
    BY <1>4
  <2>2. b.queue[1] \in b.visited /\ b.queue[1] \notin Done(b)
    BY <1>3, <2>1 DEF WalkOK, QueueOK, Done
  <2>3. Done(b) \in SUBSET Router
    BY <1>4 DEF Done
  <2>4. Done(b) = Router
    BY <1>3, <2>3, RoutersAreFinite, FS_Subset
  <2> QED
    BY <1>4, <2>2, <2>4
<1>6. Done(b) = b.visited
  <2>1. 1 .. Len(b.queue) = {}
    BY <1>5
  <2> QED
    BY <2>1 DEF Done
<1>7. b.visited = on
  <2>1. \A r \in b.visited, s \in on : Adjacent(r, s) => s \in b.visited
    BY <1>3, <1>6 DEF WalkOK, QueueOK
  <2>2. Closed(b.visited, MeshLinks)
    BY <2>1, MeshLinksAre DEF Closed
  <2> QED
    BY <1>4, <2>2 DEF Networked, Whole
<1> QED
  BY <1>1, <1>3, <1>7 DEF WalkOK, LinksOK, JoinOK

-----------------------------------------------------------------------------
(* The search of shortest paths. *)

Searches ==
  [src     : Router,
   links   : SUBSET (Router \X Router),
   visited : SUBSET Router,
   dist    : [Router -> 0 .. Far],
   pred    : [Router -> Router \cup {Nowhere}]]

(* x is a search over the routers N: distances are lengths of paths, those *)
(* of visited routers are the least and have been passed on over all       *)
(* links, and predecessors have been visited.                              *)
SearchOK(x, N) ==
  /\ x \in Searches /\ x.src \in N /\ Whole(N, x.links)
  /\ \A i \in Router : x.dist[i] = 0 <=> i = x.src
  /\ \A i \in Router : x.dist[i] < Far => i \in Ball(x.src, x.links, x.dist[i])
  /\ \A v \in x.visited, u \in Router \ x.visited : x.dist[v] <= x.dist[u]
  /\ \A v \in x.visited, u \in Router : <<v, u>> \in x.links => x.dist[u] <= x.dist[v] + 1
  /\ \A i \in Router \ {x.src} : x.dist[i] < Far =>
       /\ x.pred[i] \in x.visited /\ <<x.pred[i], i>> \in x.links
       /\ x.dist[i] = x.dist[x.pred[i]] + 1

LEMMA FarType == Far \in Nat /\ Far >= 4 /\ K * K - 1 \in Nat
<1>1. K * 2 <= K * K
  <2>1. K = 2 \/ 2 < K
    BY KAssumption
  <2>2. 2 < K => K * 2 + K <= K * K
    BY KAssumption, Product
  <2> QED
    BY <2>1, <2>2, KAssumption
<1> QED
  BY <1>1, KAssumption DEF Far

LEMMA StartOK ==
  ASSUME NEW N \in SUBSET Router, NEW r \in N, NEW L, Whole(N, L)
  PROVE  SearchOK(Start(r, L), N)
<1> DEFINE x == Start(r, L)
<1>1. /\ x.src = r /\ x.links = L /\ x.visited = {}
      /\ x.dist = [i \in Router |-> IF i = r THEN 0 ELSE Far]
      /\ x.pred = [i \in Router |-> Nowhere]
      /\ x = [src |-> x.src, links |-> x.links, visited |-> x.visited, dist |-> x.dist, pred |-> x.pred]
  BY DEF Start
<1>2. L \in SUBSET (Router \X Router) /\ r \in Router
  BY DEF Whole
<1>3. r \in Ball(r, L, 0)
  BY <1>2, BallGrows
<1> HIDE DEF x
<1>4. x.dist \in [Router -> 0 .. Far] /\ x.pred \in [Router -> Router \cup {Nowhere}]
  BY <1>1, FarType
<1>5. x \in Searches
  BY <1>1, <1>2, <1>4 DEF Searches
<1>6. \A i \in Router : x.dist[i] = IF i = r THEN 0 ELSE Far
  BY <1>1
<1> QED
  BY <1>1, <1>3, <1>5, <1>6, FarType DEF SearchOK, x

LEMMA ClosestIsClosest ==
  ASSUME search \in Searches, search.visited # Router
  PROVE  /\ ClosestUnvisited \in Router \ search.visited
         /\ \A i \in Router \ search.visited : search.dist[ClosestUnvisited] <= search.dist[i]
<1> DEFINE U == Router \ search.visited
           D == {search.dist[i] : i \in U}
<1>1. U # {} /\ U \in SUBSET Router /\ \A i \in Router : search.dist[i] \in Nat
  BY FarType DEF Searches
<1>2. D \in SUBSET Nat /\ D # {}
  BY <1>1
<1>3. PICK d \in D : \A e \in D : d <= e
  <2> HIDE DEF D
  <2> QED
    BY <1>2, Least
<1> DEFINE S == {i \in U : search.dist[i] = d}
<1>4. PICK c \in S : \A s \in S : Id(s) <= Id(c)
  <2>1. S # {} /\ S \in SUBSET Router
    BY <1>3
  <2> HIDE DEF S
  <2> QED
    BY <2>1, LastIsMember
<1>5. c \in U /\ \A i \in U :
        search.dist[c] < search.dist[i] \/ (search.dist[c] = search.dist[i] /\ Id(i) <= Id(c))
  <2> SUFFICES ASSUME NEW i \in U
               PROVE  search.dist[c] < search.dist[i] \/ (search.dist[c] = search.dist[i] /\ Id(i) <= Id(c))
    BY <1>4
  <2>1. d <= search.dist[i] /\ search.dist[c] = d /\ d \in Nat /\ search.dist[i] \in Nat
    BY <1>1, <1>3, <1>4
  <2>2. search.dist[i] = d => Id(i) <= Id(c)
    BY <1>4
  <2> QED
    BY <2>1, <2>2
<1>6. /\ ClosestUnvisited \in U
      /\ \A i \in U : \/ search.dist[ClosestUnvisited] < search.dist[i]
                      \/ search.dist[ClosestUnvisited] = search.dist[i] /\ Id(i) <= Id(ClosestUnvisited)
  BY <1>5 DEF ClosestUnvisited
<1>7. \A i \in U : search.dist[i] \in Nat
  BY <1>1
<1> HIDE DEF U
<1>8. \A i \in U : search.dist[ClosestUnvisited] <= search.dist[i]
  BY <1>6, <1>7
<1> QED
  BY <1>6, <1>8 DEF U

LEMMA VisitOK ==
  ASSUME NEW N \in SUBSET Router, SearchOK(search, N), Visit
  PROVE  SearchOK(search', N)
<1> DEFINE x == search
           y == search'
           c == ClosestUnvisited
           d == x.dist[c] + 1
           I == {i \in Router \ x.visited : <<c, i>> \in x.links /\ x.dist[i] > d}
<1>1. /\ x \in Searches /\ x.src \in N /\ Whole(N, x.links)
      /\ \A i \in Router : x.dist[i] = 0 <=> i = x.src
      /\ \A i \in Router : x.dist[i] < Far => i \in Ball(x.src, x.links, x.dist[i])
      /\ \A v \in x.visited, u \in Router \ x.visited : x.dist[v] <= x.dist[u]
      /\ \A v \in x.visited, u \in Router : <<v, u>> \in x.links => x.dist[u] <= x.dist[v] + 1
      /\ \A i \in Router \ {x.src} : x.dist[i] < Far =>
           /\ x.pred[i] \in x.visited /\ <<x.pred[i], i>> \in x.links
           /\ x.dist[i] = x.dist[x.pred[i]] + 1
  BY DEF SearchOK
<1>2. c \in Router \ x.visited /\ \A i \in Router \ x.visited : x.dist[c] <= x.dist[i]
  BY <1>1, ClosestIsClosest DEF Visit
<1>3. y = [x EXCEPT !.visited = @ \cup {c},
                    !.dist    = [i \in Router |-> IF i \in I THEN d ELSE @[i]],
                    !.pred    = [i \in Router |-> IF i \in I THEN c ELSE @[i]]]
  BY DEF Visit
<1>4. /\ x.src \in Router /\ x.links \in SUBSET (Router \X Router) /\ x.visited \in SUBSET Router
      /\ x.dist \in [Router -> 0 .. Far] /\ x.pred \in [Router -> Router \cup {Nowhere}]
  BY <1>1 DEF Searches
<1>5. /\ y.src = x.src /\ y.links = x.links /\ y.visited = x.visited \cup {c}
      /\ y.dist = [i \in Router |-> IF i \in I THEN d ELSE x.dist[i]]
      /\ y.pred = [i \in Router |-> IF i \in I THEN c ELSE x.pred[i]]
      /\ y = [src |-> y.src, links |-> y.links, visited |-> y.visited, dist |-> y.dist, pred |-> y.pred]
  BY <1>1, <1>3 DEF Searches
<1>6. \A i \in Router : x.dist[i] \in Nat /\ x.dist[i] <= Far
  BY <1>4, FarType
<1>7. I \in SUBSET (Router \ x.visited) /\ \A i \in I : <<c, i>> \in x.links /\ x.dist[i] > d
  OBVIOUS
<1>8. \A i \in Router \ x.visited : <<c, i>> \in x.links => i \in I \/ x.dist[i] <= d
  BY <1>2, <1>6
<1>9. c \in Router /\ c \notin x.visited /\ d = x.dist[c] + 1 /\ x.dist[c] \in Nat /\ x.dist[c] <= Far
  BY <1>2, <1>6
<1>10. c \notin I
  BY <1>7, <1>9
<1> HIDE DEF x, y, c, d, I
<1>11. /\ \A i \in I : y.dist[i] = d /\ y.pred[i] = c
       /\ \A i \in Router \ I : y.dist[i] = x.dist[i] /\ y.pred[i] = x.pred[i]
  BY <1>5, <1>7
<1>12. \A i \in I : d < x.dist[i] /\ d < Far /\ d \in Nat /\ x.dist[c] < Far /\ i \in Router
  <2> SUFFICES ASSUME NEW i \in I
               PROVE  d < x.dist[i] /\ d < Far /\ d \in Nat /\ x.dist[c] < Far /\ i \in Router
    OBVIOUS
  <2>1. i \in Router /\ x.dist[i] > d /\ x.dist[i] \in Nat /\ x.dist[i] <= Far
    BY <1>6, <1>7
  <2> QED
    BY <1>9, <2>1, FarType
<1>13. y \in Searches
  <2>1. \A i \in Router : y.dist[i] \in 0 .. Far /\ y.pred[i] \in Router \cup {Nowhere}
    BY <1>4, <1>9, <1>11, <1>12, FarType
  <2>2. y.dist \in [Router -> 0 .. Far] /\ y.pred \in [Router -> Router \cup {Nowhere}]
    BY <1>5, <2>1
  <2>3. y.src \in Router /\ y.links \in SUBSET (Router \X Router) /\ y.visited \in SUBSET Router
    BY <1>4, <1>5, <1>9
  <2> QED
    BY <1>5, <2>2, <2>3 DEF Searches
<1>14. \A v \in y.visited : v \in Router \ I
  BY <1>4, <1>5, <1>7, <1>9, <1>10
<1>15. \A i \in Router : y.dist[i] <= x.dist[i] /\ y.dist[i] \in Nat
  BY <1>6, <1>11, <1>12
<1>16. ASSUME NEW i \in Router PROVE y.dist[i] = 0 <=> i = y.src
  <2>1. CASE i \in I
    <3>1. x.dist[i] # 0 /\ y.dist[i] = d /\ d # 0
      BY <1>6, <1>9, <1>11, <1>12, <2>1
    <3> QED
      BY <1>1, <1>5, <3>1
  <2>2. CASE i \notin I
    BY <1>1, <1>5, <1>11, <2>2
  <2> QED
    BY <2>1, <2>2
<1>17. ASSUME NEW i \in Router, y.dist[i] < Far
       PROVE  i \in Ball(y.src, y.links, y.dist[i])
  <2>1. CASE i \in I
    <3>1. c \in Ball(x.src, x.links, x.dist[c]) /\ <<c, i>> \in x.links
      BY <1>1, <1>7, <1>9, <1>12, <2>1
    <3>2. i \in Ball(x.src, x.links, d)
      BY <1>4, <1>9, <3>1, BallExtends
    <3> QED
      BY <1>5, <1>11, <2>1, <3>2
  <2>2. CASE i \notin I
    BY <1>1, <1>5, <1>11, <1>17, <2>2
  <2> QED
    BY <2>1, <2>2
<1>18. ASSUME NEW v \in y.visited, NEW u \in Router \ y.visited
       PROVE  y.dist[v] <= y.dist[u]
  <2>1. v \in Router /\ u \in Router \ x.visited /\ y.dist[v] = x.dist[v]
    BY <1>5, <1>11, <1>14
  <2>2. x.dist[v] <= x.dist[u] /\ x.dist[v] <= x.dist[c]
    BY <1>1, <1>2, <1>5, <1>9, <1>6, <2>1 DEF c, x
  <2>3. CASE u \in I
    <3>1. y.dist[u] = d
      BY <1>11, <2>3
    <3> QED
      BY <1>6, <1>9, <2>1, <2>2, <3>1
  <2>4. CASE u \notin I
    BY <1>11, <2>1, <2>2, <2>4
  <2> QED
    BY <2>3, <2>4
<1>19. ASSUME NEW v \in y.visited, NEW u \in Router, <<v, u>> \in y.links
       PROVE  y.dist[u] <= y.dist[v] + 1
  <2>1. v \in Router /\ y.dist[v] = x.dist[v] /\ <<v, u>> \in x.links
    BY <1>5, <1>11, <1>14, <1>19
  <2>2. y.dist[u] <= x.dist[u] /\ y.dist[u] \in Nat /\ x.dist[u] \in Nat /\ x.dist[v] \in Nat
    BY <1>6, <1>15, <2>1
  <2>3. CASE v \in x.visited
    <3>1. x.dist[u] <= x.dist[v] + 1
      BY <1>1, <2>1, <2>3
    <3> QED
      BY <2>1, <2>2, <3>1
  <2>4. CASE v = c /\ u \in I
    BY <1>9, <1>11, <2>1, <2>4
  <2>5. CASE v = c /\ u \notin I /\ u \notin x.visited
    <3>1. x.dist[u] <= d
      BY <1>8, <2>1, <2>5
    <3> QED
      BY <1>9, <2>1, <2>2, <2>5, <3>1
  <2>6. CASE v = c /\ u \in x.visited
    <3>1. x.dist[u] <= x.dist[c]
      BY <1>1, <1>9, <2>6
    <3> QED
      BY <1>9, <2>1, <2>2, <2>6, <3>1
  <2> QED
    BY <1>5, <2>3, <2>4, <2>5, <2>6
<1>20. ASSUME NEW i \in Router \ {y.src}, y.dist[i] < Far
       PROVE  /\ y.pred[i] \in y.visited /\ <<y.pred[i], i>> \in y.links
              /\ y.dist[i] = y.dist[y.pred[i]] + 1
  <2>1. CASE i \in I
    <3>1. y.pred[i] = c /\ <<c, i>> \in x.links /\ y.dist[i] = d /\ y.dist[c] = x.dist[c]
      BY <1>7, <1>9, <1>10, <1>11, <2>1
    <3> QED
      BY <1>5, <1>9, <3>1
  <2>2. CASE i \notin I
    <3>1. /\ y.pred[i] = x.pred[i] /\ y.dist[i] = x.dist[i]
          /\ x.pred[i] \in x.visited /\ <<x.pred[i], i>> \in x.links
          /\ x.dist[i] = x.dist[x.pred[i]] + 1
      BY <1>1, <1>5, <1>11, <1>20, <2>2
    <3>2. y.dist[x.pred[i]] = x.dist[x.pred[i]]
      BY <1>5, <1>11, <1>14, <3>1
    <3> QED
      BY <1>5, <3>1, <3>2
  <2> QED
    BY <2>1, <2>2
<1>21. y.src \in N /\ Whole(N, y.links)
  BY <1>1, <1>5
<1>22. SearchOK(y, N)
  BY <1>13, <1>16, <1>17, <1>18, <1>19, <1>20, <1>21 DEF SearchOK
<1> QED
  BY <1>22 DEF y

(* No path is shorter than the distance, up to the distances of the        *)
(* routers that are still unvisited.                                       *)
LEMMA NoShorterPath ==
  ASSUME NEW N \in SUBSET Router, NEW x, SearchOK(x, N), NEW n \in Nat,
         \A u \in Router \ x.visited : x.dist[u] >= n
  PROVE  \A i \in Ball(x.src, x.links, n) : x.dist[i] <= n
<1> DEFINE S == {m \in Nat : m <= n => \A i \in Ball(x.src, x.links, m) : x.dist[i] <= m}
<1>0. /\ x.src \in Router /\ x.dist[x.src] = 0
      /\ \A i \in Router : x.dist[i] \in Nat
      /\ \A v \in x.visited, u \in Router : <<v, u>> \in x.links => x.dist[u] <= x.dist[v] + 1
  BY FarType DEF SearchOK, Searches
<1>1. 0 \in S
  <2>1. Ball(x.src, x.links, 0) = {x.src}
    BY <1>0, BallGrows
  <2> QED
    BY <1>0, <2>1
<1>2. ASSUME NEW m \in S PROVE m + 1 \in S
  <2> SUFFICES ASSUME m + 1 <= n, NEW i \in Ball(x.src, x.links, m + 1)
               PROVE  x.dist[i] <= m + 1
    OBVIOUS
  <2>1. m \in Nat /\ \A q \in Ball(x.src, x.links, m) : x.dist[q] <= m
    OBVIOUS
  <2>2. Ball(x.src, x.links, m) \in SUBSET Router /\ Ball(x.src, x.links, m + 1) \in SUBSET Router
    <3>1. m + 1 \in Nat
      BY <2>1
    <3> QED
      BY <1>0, <2>1, <3>1, BallGrows
  <2>3. CASE i \in Ball(x.src, x.links, m)
    <3>1. x.dist[i] <= m /\ x.dist[i] \in Nat
      BY <1>0, <2>1, <2>2, <2>3
    <3> QED
      BY <2>1, <3>1
  <2>4. ASSUME NEW q \in Ball(x.src, x.links, m), <<q, i>> \in x.links
        PROVE  x.dist[i] <= m + 1
    <3>1. q \in Router /\ i \in Router /\ x.dist[q] <= m /\ x.dist[q] \in Nat /\ x.dist[i] \in Nat
      BY <1>0, <2>1, <2>2
    <3>2. q \in x.visited
      BY <2>1, <3>1
    <3>3. x.dist[i] <= x.dist[q] + 1
      BY <1>0, <2>4, <3>1, <3>2
    <3> QED
      BY <2>1, <3>1, <3>3
  <2> QED
    BY <1>0, <2>1, <2>3, <2>4, BallExtends
<1>3. S \in SUBSET Nat
  OBVIOUS
<1> HIDE DEF S
<1>4. n \in S
  BY <1>1, <1>2, <1>3, Induction
<1> QED
  BY <1>4 DEF S

LEMMA VisitedIsExact ==
  ASSUME NEW N \in SUBSET Router, NEW x, SearchOK(x, N), NEW i \in N, i \in x.visited
  PROVE  x.dist[i] \in Nat /\ x.dist[i] < Far /\ Apart(x.src, i, x.links, x.dist[i])
<1>0. /\ i \in Router /\ x.dist[i] \in Nat /\ x.src \in N /\ Whole(N, x.links)
      /\ \A u \in Router : x.dist[u] \in Nat
      /\ \A u \in Router \ x.visited : x.dist[i] <= x.dist[u]
      /\ x.dist[i] < Far => i \in Ball(x.src, x.links, x.dist[i])
  BY FarType DEF SearchOK, Searches
<1>1. x.dist[i] < Far
  <2> SUFFICES ASSUME ~(x.dist[i] < Far) PROVE FALSE
    OBVIOUS
  <2>1. K * K - 1 \in Nat /\ Far = K * K /\ Far \in Nat
    BY FarType DEF Far
  <2>2. \A u \in Router \ x.visited : x.dist[u] >= K * K - 1
    <3> SUFFICES ASSUME NEW u \in Router \ x.visited PROVE x.dist[u] >= K * K - 1
      OBVIOUS
    <3>1. x.dist[i] <= x.dist[u] /\ x.dist[u] \in Nat
      BY <1>0
    <3>2. x.dist[i] >= K * K - 1
      BY <1>0, <2>1
    <3> QED
      BY <1>0, <2>1, <3>1, <3>2
  <2>3. i \in Ball(x.src, x.links, K * K - 1)
    BY <1>0, BallIsWhole
  <2>4. x.dist[i] <= K * K - 1
    BY <2>1, <2>2, <2>3, NoShorterPath
  <2> QED
    BY <1>0, <2>1, <2>4
<1>2. ASSUME x.dist[i] > 0, i \in Ball(x.src, x.links, x.dist[i] - 1) PROVE FALSE
  <2>1. x.dist[i] - 1 \in Nat
    BY <1>0, <1>2
  <2>2. \A u \in Router \ x.visited : x.dist[u] >= x.dist[i] - 1
    BY <1>0
  <2>3. x.dist[i] <= x.dist[i] - 1
    BY <1>2, <2>1, <2>2, NoShorterPath
  <2> QED
    BY <1>0, <2>3
<1> QED
  BY <1>0, <1>1, <1>2 DEF Apart

LEMMA SearchIsFinal ==
  ASSUME on \subseteq Router, search # Idle => SearchOK(search, on)
  PROVE  VisitedIsFinal
<1> SUFFICES ASSUME SearchOK(search, on), NEW i \in (search.visited \cap on) \ {search.src}
             PROVE  LET d == search.dist[i] IN
                      /\ i \in Ball(search.src, search.links, d)
                      /\ i \notin Ball(search.src, search.links, d - 1)
                      /\ search.pred[i] \in on /\ search.dist[search.pred[i]] = d - 1
  BY DEF VisitedIsFinal
<1> DEFINE d == search.dist[i]
<1>1. d \in Nat /\ d < Far /\ Apart(search.src, i, search.links, d)
  BY VisitedIsExact
<1>2. d # 0 /\ i \in Router
  BY DEF SearchOK
<1>3. /\ search.pred[i] \in search.visited /\ <<search.pred[i], i>> \in search.links
      /\ d = search.dist[search.pred[i]] + 1 /\ search.links \subseteq on \X on
  BY <1>1, <1>2 DEF SearchOK, Whole
<1>4. search.pred[i] \in on /\ search.pred[i] \in Router
  BY <1>3
<1>5. search.dist[search.pred[i]] \in Nat
  BY <1>4, FarType DEF SearchOK, Searches
<1>6. search.dist[search.pred[i]] = d - 1
  BY <1>3, <1>5
<1>7. d > 0
  BY <1>1, <1>2
<1> QED
  BY <1>1, <1>4, <1>6, <1>7 DEF Apart

-----------------------------------------------------------------------------
(* The tables. *)

(* Every entry of the table t of r leads over one of the links L to a      *)
(* router that is one hop closer.                                          *)
TableOK(t, r, L, N) ==
  \A i \in N \ {r} :
    LET s == Nbr(r, t[i]) IN
      /\ s \in N /\ <<r, s>> \in L
      /\ \E n \in Nat : Apart(s, i, L, n) /\ Apart(r, i, L, n + 1)

LEMMA BackToFirstHop ==
  ASSUME on \subseteq Router, SearchOK(search, on), search.visited = Router,
         NEW i \in on \ {search.src}
  PROVE  LET h == Turns(Back, i, K * K)
             D == search.dist[i] IN
           /\ h \in on /\ <<search.src, h>> \in search.links
           /\ D - 1 \in Nat /\ i \in Ball(h, search.links, D - 1)
<1> DEFINE src == search.src
           L == search.links
           D == search.dist[i]
           J(n) == Turns(Back, i, n)
           P(n) == /\ J(n) \in on \ {src} /\ search.dist[J(n)] \in 1 .. D
                   /\ i \in Ball(J(n), L, D - search.dist[J(n)])
                   /\ search.pred[J(n)] = src \/ search.dist[J(n)] + n <= D
           S == {n \in Nat : P(n)}
<1>1. \A j \in on \ {src} :
        /\ j \in Router /\ search.dist[j] \in Nat /\ search.dist[j] < Far /\ search.dist[j] # 0
        /\ search.pred[j] \in on /\ <<search.pred[j], j>> \in L
        /\ search.dist[j] = search.dist[search.pred[j]] + 1
  <2> SUFFICES ASSUME NEW j \in on \ {src}
      PROVE /\ j \in Router /\ search.dist[j] \in Nat /\ search.dist[j] < Far /\ search.dist[j] # 0
            /\ search.pred[j] \in on /\ <<search.pred[j], j>> \in L
            /\ search.dist[j] = search.dist[search.pred[j]] + 1
    OBVIOUS
  <2>1. j \in Router /\ j \in search.visited
    OBVIOUS
  <2>2. search.dist[j] \in Nat /\ search.dist[j] < Far
    BY <2>1, VisitedIsExact
  <2>3. search.dist[j] # 0
    BY <2>1 DEF SearchOK
  <2>4. <<search.pred[j], j>> \in L /\ search.dist[j] = search.dist[search.pred[j]] + 1
    BY <2>1, <2>2 DEF SearchOK
  <2>5. search.pred[j] \in on
    BY <2>4 DEF SearchOK, Whole
  <2> QED
    BY <2>1, <2>2, <2>3, <2>4, <2>5
<1>2. \A j \in on \ {src} : Back[j] = IF search.pred[j] = src THEN j ELSE search.pred[j]
  BY <1>1 DEF Back
<1>3. \A r \in on : r \in Router /\ search.dist[r] \in Nat /\ (search.dist[r] = 0 <=> r = src)
  BY FarType DEF SearchOK, Searches
<1>4. J(0) = i /\ \A n \in Nat : J(n + 1) = Back[J(n)]
  BY TurnByTurn
<1> HIDE DEF J
<1>5. D \in Nat /\ D < Far /\ D # 0 /\ D - 1 \in Nat
  <2>1. D \in Nat /\ D < Far /\ D # 0
    BY <1>1
  <2> HIDE DEF D
  <2> QED
    BY <2>1
<1> HIDE DEF D
<1>6. P(0)
  <2>1. D - D = 0 /\ Ball(i, L, 0) = {i} /\ D + 0 <= D
    BY <1>1, <1>5, BallGrows
  <2>2. search.dist[J(0)] = D
    BY <1>4 DEF D
  <2>3. i \in Ball(J(0), L, D - search.dist[J(0)])
    BY <1>4, <2>1, <2>2
  <2> QED
    BY <1>4, <1>5, <2>1, <2>2, <2>3
<1>7. ASSUME NEW n \in Nat, P(n) PROVE P(n + 1)
  <2> DEFINE j == J(n)
             e == search.dist[j]
  <2>1. /\ j \in on \ {src} /\ e \in 1 .. D /\ i \in Ball(j, L, D - e)
        /\ search.pred[j] = src \/ e + n <= D
    BY <1>7
  <2>2. J(n + 1) = IF search.pred[j] = src THEN j ELSE search.pred[j]
    BY <1>2, <1>4, <2>1
  <2>3. CASE search.pred[j] = src
    <3>1. J(n + 1) = j
      BY <2>2, <2>3
    <3> QED
      BY <2>1, <2>3, <3>1
  <2>4. CASE search.pred[j] # src
    <3> DEFINE k == search.pred[j]
    <3>1. J(n + 1) = k /\ k \in on /\ k # src /\ <<k, j>> \in L /\ e = search.dist[k] + 1
      BY <1>1, <2>1, <2>2, <2>4
    <3>2. search.dist[k] \in Nat /\ search.dist[k] # 0 /\ k \in Router /\ j \in Router
      BY <1>1, <1>3, <2>1, <3>1
    <3> HIDE DEF j, k, e
    <3>3. D - e \in Nat /\ (D - e) + 1 = D - search.dist[k]
      BY <1>5, <2>1, <3>1, <3>2
    <3>4. i \in Ball(k, L, (D - e) + 1)
      BY <2>1, <3>1, <3>2, <3>3, BallPrepends
    <3>5. i \in Ball(k, L, D - search.dist[k])
      BY <3>3, <3>4
    <3>6. search.dist[k] \in 1 .. D /\ search.dist[k] + (n + 1) <= D
      <4>1. e + n <= D
        BY <2>1, <2>4 DEF k
      <4> QED
        BY <1>5, <2>1, <3>1, <3>2, <4>1
    <3> QED
      BY <3>1, <3>5, <3>6
  <2> QED
    BY <2>3, <2>4
<1>8. \A n \in Nat : n \in S
  <2>1. S \in SUBSET Nat /\ 0 \in S /\ \A n \in S : n + 1 \in S
    <3> HIDE DEF P
    <3> QED
      BY <1>6, <1>7
  <2> HIDE DEF S
  <2> QED
    BY <2>1, Induction
<1>9. P(K * K)
  <2>1. K * K \in Nat
    BY KAssumption
  <2> HIDE DEF P
  <2> QED
    BY <1>8, <2>1
<1> DEFINE h == J(K * K)
<1>10. /\ h \in on \ {src} /\ search.dist[h] \in 1 .. D /\ i \in Ball(h, L, D - search.dist[h])
       /\ search.pred[h] = src \/ search.dist[h] + K * K <= D
  BY <1>9
<1> HIDE DEF h
<1>11. search.pred[h] = src
  <2> SUFFICES ASSUME search.dist[h] + K * K <= D PROVE FALSE
    BY <1>10
  <2>1. search.dist[h] + Far <= D /\ Far \in Nat
    BY FarType DEF Far
  <2> QED
    BY <1>5, <1>10, <2>1
<1>12. search.dist[h] = 1 /\ <<src, h>> \in L
  <2>1. search.dist[src] = 0
    BY <1>3 DEF SearchOK
  <2> QED
    BY <1>1, <1>10, <1>11, <2>1
<1>13. h \in on /\ <<src, h>> \in L /\ D - 1 \in Nat /\ i \in Ball(h, L, D - 1)
  BY <1>5, <1>10, <1>12
<1> QED
  BY <1>13 DEF h, J, D, L

LEMMA AbsIsOne ==
  ASSUME NEW i \in Int, NEW j \in Int, Abs(i) + Abs(j) = 1
  PROVE  \/ i = 0 /\ (j = 1 \/ j = -1)
         \/ j = 0 /\ (i = 1 \/ i = -1)
  BY DEF Abs

(* The direction of a neighbour leads to it. *)
LEMMA DirectionLeads ==
  ASSUME NEW r \in Router, NEW s \in Router, Adjacent(r, s)
  PROVE  Nbr(r, Direction(r, s)) = s
<1> DEFINE y == Row(r)
           x == Col(r)
           v == Row(s)
           u == Col(s)
<1>1. /\ y \in Coord /\ x \in Coord /\ r = <<y, x>> /\ y = r[1] /\ x = r[2]
      /\ v \in Coord /\ u \in Coord /\ s = <<v, u>>
      /\ Id(r) = K * y + x /\ Id(s) = K * v + u /\ Abs(y - v) + Abs(x - u) = 1
  BY RouterType DEF Id, Adjacent, Row, Col
<1>2. K \in Nat /\ K >= 2 /\ \A i \in Coord : i \in Nat /\ i <= K - 1
  BY KAssumption DEF Coord
<1> HIDE DEF y, x, v, u
<1>3. \/ y - v = 0 /\ (x - u = 1 \/ x - u = -1)
      \/ x - u = 0 /\ (y - v = 1 \/ y - v = -1)
  <2>1. y - v \in Int /\ x - u \in Int
    BY <1>1, <1>2
  <2> QED
    BY <1>1, <2>1, AbsIsOne
<1>4. y \in Nat /\ x \in Nat /\ v \in Nat /\ u \in Nat /\ y <= K - 1 /\ x <= K - 1 /\ v <= K - 1 /\ u <= K - 1
  BY <1>1, <1>2
<1>5. K * y \in Nat /\ K * v \in Nat /\ K * (y + 1) = K * y + K /\ K * (v + 1) = K * v + K
  BY <1>2, <1>4
<1> DEFINE g == Id(s) - Id(r)
<1>6. Direction(r, s) = CASE g = 1  -> East
                          [] g = -1 -> West
                          [] g = K  -> South
                          [] OTHER  -> North
  BY DEF Direction
<1>7. g = (K * v + u) - (K * y + x)
  BY <1>1
<1> HIDE DEF g
<1>8. CASE v = y /\ u = x + 1
  <2>1. g = 1
    BY <1>4, <1>5, <1>7, <1>8
  <2>2. Direction(r, s) = 0
    BY <1>2, <1>6, <2>1 DEF East
  <2>3. Nbr(r, 0) = <<y, Succ(x)>> /\ Succ(x) = x + 1
    BY <1>1, <1>2, <1>4, <1>8 DEF Nbr, Succ
  <2> QED
    BY <1>1, <1>8, <2>2, <2>3
<1>9. CASE v = y /\ u = x - 1
  <2>1. g = -1
    BY <1>4, <1>5, <1>7, <1>9
  <2>2. Direction(r, s) = 1
    BY <1>2, <1>6, <2>1 DEF West
  <2>3. Nbr(r, 1) = <<y, Pred(x)>> /\ Pred(x) = x - 1
    BY <1>1, <1>2, <1>4, <1>9 DEF Nbr, Pred
  <2> QED
    BY <1>1, <1>9, <2>2, <2>3
<1>10. CASE u = x /\ v = y + 1
  <2>1. g = K
    BY <1>2, <1>4, <1>5, <1>7, <1>10
  <2>2. Direction(r, s) = 2
    BY <1>2, <1>6, <2>1 DEF South
  <2>3. Nbr(r, 2) = <<Succ(y), x>> /\ Succ(y) = y + 1
    BY <1>1, <1>2, <1>4, <1>10 DEF Nbr, Succ
  <2> QED
    BY <1>1, <1>10, <2>2, <2>3
<1>11. CASE u = x /\ v = y - 1
  <2>1. g = -K
    <3>1. y = v + 1
      BY <1>4, <1>11
    <3> QED
      BY <1>2, <1>4, <1>5, <1>7, <1>11, <3>1
  <2>2. Direction(r, s) = 3
    <3>1. g # 1 /\ g # -1 /\ g # K
      BY <1>2, <2>1
    <3> QED
      BY <1>6, <3>1 DEF North
  <2>3. Nbr(r, 3) = <<Pred(y), x>> /\ Pred(y) = y - 1
    BY <1>1, <1>2, <1>4, <1>11 DEF Nbr, Pred
  <2> QED
    BY <1>1, <1>11, <2>2, <2>3
<1> QED
  BY <1>3, <1>4, <1>8, <1>9, <1>10, <1>11

LEMMA FirstHopsOK ==
  ASSUME on \subseteq Router, SearchOK(search, on), search.visited = Router,
         \A l \in search.links : Adjacent(l[1], l[2])
  PROVE  TableOK(FirstHops, search.src, search.links, on)
<1> SUFFICES ASSUME NEW i \in on \ {search.src}
             PROVE  LET s == Nbr(search.src, FirstHops[i]) IN
                      /\ s \in on /\ <<search.src, s>> \in search.links
                      /\ \E n \in Nat : /\ Apart(s, i, search.links, n)
                                        /\ Apart(search.src, i, search.links, n + 1)
  BY DEF TableOK
<1> DEFINE h == Turns(Back, i, K * K)
           D == search.dist[i]
           L == search.links
           src == search.src
<1>1. h \in on /\ <<src, h>> \in L /\ D - 1 \in Nat /\ i \in Ball(h, L, D - 1)
  BY BackToFirstHop
<1>2. D \in Nat /\ Apart(src, i, L, D)
  BY VisitedIsExact
<1>3. src \in Router /\ h \in Router /\ Adjacent(src, h) /\ src \in on
  <2>1. <<src, h>>[1] = src /\ <<src, h>>[2] = h
    OBVIOUS
  <2> HIDE DEF h
  <2> QED
    BY <1>1, <2>1 DEF SearchOK
<1>4. FirstHops[i] = Direction(src, h)
  BY DEF FirstHops
<1> HIDE DEF h, D, L, src
<1>5. Nbr(src, FirstHops[i]) = h
  BY <1>3, <1>4, DirectionLeads
<1>6. ASSUME D - 1 > 0, i \in Ball(h, L, (D - 1) - 1) PROVE FALSE
  <2>1. (D - 1) - 1 \in Nat /\ ((D - 1) - 1) + 1 = D - 1
    BY <1>1, <1>2, <1>6
  <2>2. i \in Ball(src, L, D - 1)
    <3>1. Ball(h, L, (D - 1) - 1) \subseteq Ball(src, L, ((D - 1) - 1) + 1)
      BY <1>1, <1>3, <2>1, BallPrepends
    <3> QED
      BY <1>6, <2>1, <3>1
  <2> QED
    BY <1>1, <1>2, <2>2 DEF Apart
<1>7. Apart(h, i, L, D - 1) /\ (D - 1) + 1 = D
  BY <1>1, <1>2, <1>6 DEF Apart
<1> QED
  BY <1>1, <1>2, <1>5, <1>7 DEF src, L

-----------------------------------------------------------------------------
(* The invariant of the tables. *)

TablesInv ==
  /\ stage # "done" => search = Idle /\ table = <<>> /\ escape = <<>>
  /\ DOMAIN escape \subseteq DOMAIN table /\ DOMAIN table \subseteq on
  /\ search # Idle => /\ SearchOK(search, on)
                      /\ search.links = IF search.src \in DOMAIN table THEN Tree ELSE MeshLinks
  /\ \A r \in DOMAIN table : TableOK(table[r], r, MeshLinks, on)
  /\ \A r \in DOMAIN escape : TableOK(escape[r], r, Tree, on)

LEMMA LinksFixed == on' = on => MeshLinks' = MeshLinks /\ Tree' = Tree
  BY DEF MeshLinks, Tree, Walks, Explore, FirstWalk

LEMMA ParkedNetwork ==
  ASSUME ParkingInv, stage = "done"
  PROVE  Networked
<1>1. on \subseteq Router /\ FabricManager \in on
  BY ParkingAssumption DEF ParkingInv, ParkingTypeOK
<1>2. Whole(on, MeshLinks)
  <2>1. MeshLinks \subseteq on \X on
    BY DEF MeshLinks
  <2>2. ASSUME NEW S \in SUBSET on, Closed(S, MeshLinks) PROVE S \in {{}, on}
    <3>1. Isolated(S, on)
      BY <1>1, <2>2, MeshLinksAre DEF Isolated, Closed
    <3> QED
      BY <3>1, InvConnected DEF Connected
  <2> QED
    BY <2>1, <2>2 DEF Whole
<1> QED
  BY <1>1, <1>2 DEF Networked

LEMMA TablesInvInit == TablesInit => TablesInv
  BY DEF TablesInit, TablesInv

LEMMA TablesInvParking ==
  TablesInv /\ ParkingNext /\ UNCHANGED tables => TablesInv'
<1> SUFFICES ASSUME TablesInv, ParkingNext, UNCHANGED tables PROVE TablesInv'
  OBVIOUS
<1>1. stage # "done"
  BY DEF ParkingNext, ParkCore, CoresParked, ParkRouter, ConnectComponent, RoutersParked
<1>2. search' = search /\ table' = <<>> /\ escape' = <<>> /\ search = Idle
  BY <1>1 DEF TablesInv, tables
<1>3. Idle' = Idle
  BY DEF Idle, Start
<1>4. DOMAIN <<>> = {}
  OBVIOUS
<1> QED
  BY <1>2, <1>3, <1>4 DEF TablesInv

LEMMA TablesInvIdle ==
  TablesInv /\ UNCHANGED <<parking, tables>> => TablesInv'
<1> SUFFICES ASSUME TablesInv, UNCHANGED <<parking, tables>> PROVE TablesInv'
  OBVIOUS
<1>1. on' = on /\ stage' = stage /\ search' = search /\ table' = table /\ escape' = escape
  BY DEF parking, tables
<1>2. MeshLinks' = MeshLinks /\ Tree' = Tree /\ Idle' = Idle
  BY <1>1, LinksFixed DEF Idle, Start
<1> QED
  BY <1>1, <1>2 DEF TablesInv

LEMMA TablesInvStep ==
  ParkingInv /\ TablesInv /\ TablesNext /\ UNCHANGED parking => TablesInv'
<1> SUFFICES ASSUME ParkingInv, TablesInv, TablesNext, UNCHANGED parking PROVE TablesInv'
  OBVIOUS
<1>0. on' = on /\ stage' = stage /\ MeshLinks' = MeshLinks /\ Tree' = Tree /\ Idle' = Idle
  BY LinksFixed DEF parking, Idle, Start
<1>1. Idle.visited = Router
  BY DEF Idle, Start
<1>2. stage = "done"
  BY <1>1 DEF TablesInv, TablesNext, BuildRoute, Visit, BuildEscRoute, SetTables, Searched
<1>3. Networked /\ on \in SUBSET Router
  BY <1>2, ParkedNetwork DEF Networked
<1>4. Whole(on, MeshLinks) /\ Whole(on, Tree)
  BY <1>3, TreeOfShortestPaths DEF Networked
<1>5. \A L \in {MeshLinks, Tree} : \A l \in L : Adjacent(l[1], l[2])
  <2>1. \A l \in Tree : Adjacent(l[1], l[2])
    <3> SUFFICES ASSUME NEW l \in Tree PROVE Adjacent(l[1], l[2])
      OBVIOUS
    <3>1. l[1] \in on /\ l[2] \in on /\ l = <<l[1], l[2]>>
      BY <1>4 DEF Whole
    <3> QED
      BY <1>3, <3>1, TreeOfShortestPaths
  <2>2. \A l \in MeshLinks : Adjacent(l[1], l[2])
    BY DEF MeshLinks
  <2> QED
    BY <2>1, <2>2
<1>6. ASSUME Searched
      PROVE  TableOK(FirstHops, search.src, search.links, on) /\ search.src \in on
  BY <1>3, <1>5, <1>6, FirstHopsOK DEF TablesInv, Searched, SearchOK
<1>7. CASE BuildRoute
  <2>1. First(on \ DOMAIN table) \in on \ DOMAIN table
    BY <1>3, <1>7, FirstIsMember DEF BuildRoute
  <2>2. search' = Start(First(on \ DOMAIN table), MeshLinks) /\ table' = table /\ escape' = escape
    BY <1>7 DEF BuildRoute, RouteLinks
  <2>3. SearchOK(search', on) /\ search'.src \notin DOMAIN table /\ search'.links = MeshLinks
    <3>1. SearchOK(search', on)
      BY <1>3, <1>4, <2>1, <2>2, StartOK
    <3> QED
      BY <2>1, <2>2, <3>1 DEF Start
  <2> QED
    BY <1>0, <1>2, <2>2, <2>3 DEF TablesInv
<1>8. CASE Visit
  <2>1. search # Idle /\ table' = table /\ escape' = escape
    BY <1>1, <1>8 DEF Visit
  <2>2. SearchOK(search', on)
    BY <1>3, <1>8, <2>1, VisitOK DEF TablesInv
  <2>3. search'.src = search.src /\ search'.links = search.links
    <3>1. search \in Searches
      BY <2>1 DEF TablesInv, SearchOK
    <3> QED
      BY <1>8, <3>1 DEF Visit, Searches
  <2> QED
    BY <1>0, <1>2, <2>1, <2>2, <2>3 DEF TablesInv
<1>9. CASE BuildEscRoute
  <2> DEFINE r == search.src
  <2>1. /\ search # Idle /\ r \notin DOMAIN table /\ escape' = escape
        /\ table' = With(table, r, FirstHops) /\ search' = Start(r, Tree)
    BY <1>9 DEF BuildEscRoute, Searched, EscapeLinks
  <2>2. TableOK(FirstHops, r, MeshLinks, on) /\ r \in on
    BY <1>6, <1>9, <2>1 DEF BuildEscRoute, TablesInv
  <2>3. /\ DOMAIN table' = DOMAIN table \cup {r} /\ table'[r] = FirstHops
        /\ \A q \in DOMAIN table : table'[q] = table[q]
    BY <2>1 DEF With
  <2>4. SearchOK(search', on) /\ search'.src = r /\ search'.links = Tree
    <3>1. SearchOK(search', on)
      BY <1>3, <1>4, <2>1, <2>2, StartOK
    <3> QED
      BY <2>1, <3>1 DEF Start
  <2> QED
    BY <1>0, <1>2, <2>1, <2>2, <2>3, <2>4 DEF TablesInv
<1>10. CASE SetTables
  <2> DEFINE r == search.src
  <2>1. /\ search # Idle /\ r \in DOMAIN table /\ table' = table
        /\ escape' = With(escape, r, FirstHops) /\ search' = Idle
    BY <1>10 DEF SetTables, Searched
  <2>2. TableOK(FirstHops, r, Tree, on)
    BY <1>6, <1>10, <2>1 DEF SetTables, TablesInv
  <2>3. /\ DOMAIN escape' = DOMAIN escape \cup {r} /\ escape'[r] = FirstHops
        /\ \A q \in DOMAIN escape \ {r} : escape'[q] = escape[q]
    BY <2>1 DEF With
  <2> QED
    BY <1>0, <1>2, <2>1, <2>2, <2>3 DEF TablesInv
<1> QED
  BY <1>7, <1>8, <1>9, <1>10 DEF TablesNext

-----------------------------------------------------------------------------
(* The tables at work. *)

(* The flit is at a router that is on, on its way to another one, and      *)
(* there is none before the tables are complete.                           *)
PktOK ==
  /\ pkt \in [at : on, dest : on, in : {"none", "injection", "regular", "escape"},
              want : {"none", "regular", "escape"}, got : BOOLEAN]
  /\ pkt.in = "none" => pkt = NoPacket
  /\ pkt.in # "none" => Running
  /\ pkt.want # "none" => pkt.at # pkt.dest

Inv == ParkingInv /\ TablesInv /\ PktOK

LEMMA InitInv == Init => Inv
<1> SUFFICES ASSUME Init PROVE Inv
  OBVIOUS
<1>1. ParkingInv
  BY InitTypeOK DEF Init, ParkingInv, ParkingInit, Surrounded, CutOffWaits
<1>2. TablesInv
  BY TablesInvInit DEF Init
<1>3. PktOK
  BY ParkingAssumption DEF Init, ParkingInit, PktOK, NoPacket
<1> QED
  BY <1>1, <1>2, <1>3 DEF Inv

(* Nothing is configured any more when the network runs. *)
LEMMA RunningIsFinal == TablesInv /\ Running => ~Configure
<1> SUFFICES ASSUME TablesInv, Running PROVE ~Configure
  OBVIOUS
<1>1. /\ stage = "done" /\ DOMAIN escape = on /\ search = Idle
      /\ on \ DOMAIN table = {} /\ search.visited = Router
  BY DEF Running, TablesDone, TablesInv, Idle, Start
<1>2. ~ParkingNext
  BY <1>1 DEF ParkingNext, ParkCore, CoresParked, ParkRouter, ConnectComponent, RoutersParked
<1>3. ~TablesNext
  BY <1>1 DEF TablesNext, BuildRoute, Visit, BuildEscRoute, SetTables, Searched
<1> QED
  BY <1>2, <1>3 DEF Configure

LEMMA ParkingInvStep == ParkingInv /\ [ParkingNext]_parking => ParkingInv'
  BY TypeOKStep, SurroundedStep, CutOffWaitsStep DEF ParkingInv

(* A hop along a table comes one hop closer over the links of the table.   *)
LEMMA HopOverTable ==
  ASSUME TablesInv, Running, NEW r \in on, NEW i \in on \ {r}
  PROVE  /\ LET s == Nbr(r, table[r][i]) IN
              /\ s \in on /\ <<r, s>> \in MeshLinks
              /\ \E n \in Nat : Apart(s, i, MeshLinks, n) /\ Apart(r, i, MeshLinks, n + 1)
         /\ LET s == Nbr(r, escape[r][i]) IN
              /\ s \in on /\ <<r, s>> \in Tree
              /\ \E n \in Nat : Apart(s, i, Tree, n) /\ Apart(r, i, Tree, n + 1)
<1>1. r \in DOMAIN table /\ r \in DOMAIN escape
  BY DEF Running, TablesDone, TablesInv
<1> QED
  BY <1>1 DEF TablesInv, TableOK

LEMMA TraverseOK ==
  ASSUME Inv, NEW class \in {"regular", "escape"}, Traverse(class)
  PROVE  PktOK'
<1>1. /\ pkt.at \in on /\ pkt.dest \in on \ {pkt.at} /\ Running /\ TablesInv
      /\ pkt.want = class /\ NoPacket.want = "none"
  BY DEF Inv, PktOK, Traverse, NoPacket
<1>2. UNCHANGED <<parking, tables>>
  BY DEF Traverse
<1>3. on' = on /\ Running'
  BY <1>1, <1>2 DEF parking, tables, Running, TablesDone, Idle, Start
<1>4. Nbr(pkt.at, OutPort) \in on
  BY <1>1, HopOverTable DEF OutPort
<1>5. pkt' = [pkt EXCEPT !.at = Nbr(pkt.at, OutPort), !.in = class, !.want = "none", !.got = FALSE]
  BY DEF Traverse
<1>6. pkt' \in [at : on, dest : on, in : {"none", "injection", "regular", "escape"},
                want : {"none", "regular", "escape"}, got : BOOLEAN]
  BY <1>4, <1>5 DEF Inv, PktOK
<1>7. pkt'.in = class /\ pkt'.want = "none"
  BY <1>5 DEF Inv, PktOK
<1> QED
  BY <1>3, <1>6, <1>7 DEF PktOK

LEMMA PktOKStep == Inv /\ [Next]_vars /\ ParkingInv' => PktOK'
<1> SUFFICES ASSUME Inv, [Next]_vars, ParkingInv' PROVE PktOK'
  OBVIOUS
<1> DEFINE Pkts(N) == [at : N, dest : N, in : {"none", "injection", "regular", "escape"},
                       want : {"none", "regular", "escape"}, got : BOOLEAN]
<1>1. /\ pkt \in Pkts(on) /\ (pkt.in = "none" => pkt = NoPacket)
      /\ (pkt.in # "none" => Running) /\ (pkt.want # "none" => pkt.at # pkt.dest)
  BY DEF Inv, PktOK
<1>2. FabricManager \in on /\ FabricManager \in on' /\ NoPacket \in Pkts(on) /\ NoPacket' = NoPacket
  BY ParkingAssumption DEF Inv, ParkingInv, ParkingTypeOK, NoPacket
<1>3. NoPacket.in = "none" /\ NoPacket.want = "none"
  BY DEF NoPacket
<1>4. UNCHANGED <<parking, tables>> => on' = on /\ Running' = Running
  BY DEF parking, tables, Running, TablesDone, Idle, Start
<1>5. CASE Configure
  <2>1. pkt' = pkt /\ pkt = NoPacket
    BY <1>1, <1>5, RunningIsFinal DEF Configure, Inv
  <2>2. NoPacket \in Pkts(on')
    BY <1>2 DEF NoPacket
  <2> QED
    BY <1>2, <1>3, <2>1, <2>2 DEF PktOK
<1>6. CASE Inject
  <2>1. PICK s \in Router \ offCores, d \in Router \ offCores :
          pkt' = [NoPacket EXCEPT !.at = s, !.dest = d, !.in = "injection"]
    BY <1>6 DEF Inject
  <2>2. s \in on /\ d \in on
    BY DEF Inv, ParkingInv, ParkingTypeOK
  <2>3. pkt' \in Pkts(on) /\ pkt'.in = "injection" /\ pkt'.want = "none"
    BY <2>1, <2>2 DEF NoPacket
  <2>4. Running /\ UNCHANGED <<parking, tables>>
    BY <1>6 DEF Inject
  <2> QED
    BY <1>4, <2>3, <2>4 DEF PktOK
<1>7. CASE Route
  <2>1. /\ pkt.in # "none" /\ pkt.at # pkt.dest /\ UNCHANGED <<parking, tables>>
        /\ pkt' = [pkt EXCEPT !.want = IF pkt.in = "escape" THEN "escape" ELSE "regular"]
    BY <1>7 DEF Route
  <2>2. /\ pkt' \in Pkts(on) /\ pkt'.in = pkt.in /\ pkt'.at = pkt.at /\ pkt'.dest = pkt.dest
    BY <1>1, <2>1
  <2> QED
    BY <1>1, <1>4, <2>1, <2>2 DEF PktOK
<1>8. CASE Timeout
  <2>1. /\ pkt.want = "regular" /\ UNCHANGED <<parking, tables>>
        /\ pkt' = [pkt EXCEPT !.want = "escape", !.got = FALSE]
    BY <1>8 DEF Timeout, MayTimeOut
  <2>2. /\ pkt' \in Pkts(on) /\ pkt'.in = pkt.in /\ pkt'.at = pkt.at /\ pkt'.dest = pkt.dest
    BY <1>1, <2>1
  <2>3. pkt.in # "none"
    BY <1>1, <1>3, <2>1
  <2> QED
    BY <1>1, <1>4, <2>1, <2>2, <2>3 DEF PktOK
<1>9. CASE Eject
  <2>1. pkt' = NoPacket /\ UNCHANGED <<parking, tables>>
    BY <1>9 DEF Eject
  <2> QED
    BY <1>2, <1>3, <1>4, <2>1 DEF PktOK
<1>10. ASSUME NEW class \in {"regular", "escape"}, VCAlloc(class) PROVE PktOK'
  <2>1. /\ pkt.want = class /\ UNCHANGED <<parking, tables>>
        /\ pkt' = [pkt EXCEPT !.got = TRUE]
    BY <1>10 DEF VCAlloc
  <2>2. /\ pkt' \in Pkts(on) /\ pkt'.in = pkt.in /\ pkt'.at = pkt.at /\ pkt'.dest = pkt.dest
        /\ pkt'.want = pkt.want
    BY <1>1, <2>1
  <2>3. pkt.in # "none"
    BY <1>1, <1>3, <2>1
  <2> QED
    BY <1>1, <1>4, <2>1, <2>2, <2>3 DEF PktOK
<1>11. ASSUME NEW class \in {"regular", "escape"}, Traverse(class) PROVE PktOK'
  BY <1>11, TraverseOK
<1>12. CASE UNCHANGED vars
  <2>1. UNCHANGED <<parking, tables>> /\ pkt' = pkt
    BY <1>12 DEF vars
  <2> QED
    BY <1>1, <1>2, <1>4, <2>1 DEF PktOK
<1> QED
  BY <1>5, <1>6, <1>7, <1>8, <1>9, <1>10, <1>11, <1>12 DEF Next

LEMMA StepInv == Inv /\ [Next]_vars => Inv'
<1> SUFFICES ASSUME Inv, [Next]_vars PROVE Inv'
  OBVIOUS
<1>1. \/ ParkingNext /\ UNCHANGED tables
      \/ TablesNext /\ UNCHANGED parking
      \/ UNCHANGED <<parking, tables>>
  BY DEF Next, vars, Configure, Inject, Route, VCAlloc, Timeout, Traverse, Eject
<1>2. ParkingInv'
  BY <1>1, ParkingInvStep DEF Inv
<1>3. TablesInv'
  BY <1>1, TablesInvParking, TablesInvStep, TablesInvIdle DEF Inv
<1>4. PktOK'
  BY <1>2, PktOKStep
<1> QED
  BY <1>2, <1>3, <1>4 DEF Inv

(* When the tables are used they are complete and exact, and the flit is   *)
(* where they lead.                                                        *)
THEOREM RpMeshInvariant == Spec => []Inv
<1> QED
  BY InitInv, StepInv, PTL DEF Spec

(* The distances that the search has settled are final, after every turn   *)
(* of _CalDist and _CalUpDownDist, and their predecessors lead back.       *)
THEOREM SearchesAreExact == Spec => []VisitedIsFinal
<1>1. Inv => VisitedIsFinal
  BY SearchIsFinal DEF Inv, ParkingInv, ParkingTypeOK, TablesInv
<1> QED
  BY <1>1, RpMeshInvariant, PTL

(* No flit comes to a router that is parked: _InputQueuing asserts it.     *)
THEOREM FlitsStayOn == Spec => []FlitsMeetRouters
<1>1. Inv => FlitsMeetRouters
  BY DEF Inv, PktOK, FlitsMeetRouters
<1> QED
  BY <1>1, RpMeshInvariant, PTL

(* The tables of all routers fit together: every regular hop is one of a   *)
(* shortest path.                                                          *)
THEOREM RegularHopsComeCloser == Spec => Closer
<1>1. ASSUME Inv, Traverse("regular")
      PROVE  Hops(pkt'.at, pkt.dest) = Hops(pkt.at, pkt.dest) - 1
  <2> DEFINE r == pkt.at
             i == pkt.dest
             s == Nbr(r, table[r][i])
  <2>1. r \in on /\ i \in on \ {r} /\ Running /\ TablesInv /\ stage = "done"
    BY <1>1 DEF Inv, PktOK, Traverse, NoPacket, Running, TablesDone
  <2>2. pkt'.at = s
    BY <1>1 DEF Traverse, OutPort, Inv, PktOK
  <2>3. PICK n \in Nat : Apart(s, i, MeshLinks, n) /\ Apart(r, i, MeshLinks, n + 1)
    BY <2>1, HopOverTable
  <2>4. s \in on
    BY <2>1, HopOverTable
  <2>5. on \subseteq Router /\ Whole(on, MeshLinks)
    BY <1>1, <2>1, ParkedNetwork DEF Inv, Networked
  <2> HIDE DEF r, i, s
  <2>6. n = Hops(s, i)
    BY <2>1, <2>3, <2>4, <2>5, HopsAreApart
  <2>7. n + 1 = Hops(r, i)
    BY <2>1, <2>3, <2>5, HopsAreApart
  <2> QED
    BY <2>2, <2>6, <2>7 DEF r, i
<1> QED
  BY <1>1, RpMeshInvariant, PTL DEF Spec, Closer

LEMMA InvNoClimb == Inv => NoClimbAfterDescent
<1> SUFFICES ASSUME Inv, Running, NEW r \in on, NEW d \in on \ {r},
                    Depth(EscNext(r, d)) > Depth(r), EscNext(r, d) # d
             PROVE  Depth(EscNext(EscNext(r, d), d)) > Depth(EscNext(r, d))
  BY DEF NoClimbAfterDescent
<1> DEFINE s == EscNext(r, d)
           t == EscNext(s, d)
<1>1. TablesInv /\ Networked /\ on \subseteq Router
  BY ParkedNetwork DEF Inv, Running, TablesDone, Networked
<1>2. s \in on /\ <<r, s>> \in Tree
  BY <1>1, HopOverTable DEF EscNext
<1>3. PICK n \in Nat : Apart(s, d, Tree, n) /\ Apart(r, d, Tree, n + 1)
  BY <1>1, HopOverTable DEF EscNext
<1> HIDE DEF s
<1>4. d \in on \ {s}
  BY DEF s
<1>5. t \in on /\ <<s, t>> \in Tree
  BY <1>1, <1>2, <1>4, HopOverTable DEF EscNext
<1>6. PICK m \in Nat : Apart(t, d, Tree, m) /\ Apart(s, d, Tree, m + 1)
  BY <1>1, <1>2, <1>4, HopOverTable DEF EscNext
<1> HIDE DEF t
<1>7. m + 1 = n
  BY <1>1, <1>2, <1>3, <1>6, ApartIsUnique
<1>8. t # r
  <2> SUFFICES ASSUME t = r PROVE FALSE
    OBVIOUS
  <2>1. m = n + 1
    BY <1>1, <1>3, <1>6, ApartIsUnique
  <2> QED
    BY <1>7, <2>1
<1>9. <<s, r>> \in Tree /\ (Depth(t) = Depth(s) + 1 \/ Depth(s) = Depth(t) + 1)
  BY <1>1, <1>2, <1>5, TreeOfShortestPaths
<1>10. Depth(r) \in Nat /\ Depth(s) \in Nat /\ Depth(t) \in Nat
  BY <1>1, <1>2, <1>5, DepthType
<1>11. Depth(s) > Depth(r)
  BY DEF s
<1>12. ~(Depth(t) < Depth(s))
  <2>1. Depth(r) < Depth(s)
    BY <1>10, <1>11
  <2> QED
    BY <1>1, <1>2, <1>5, <1>8, <1>9, <2>1, TreeOfShortestPaths
<1>13. Depth(t) > Depth(s)
  BY <1>9, <1>10, <1>12
<1> QED
  BY <1>13 DEF s, t

(* The escape routes of all routers follow one tree: a flit that has come  *)
(* down from the fabric manager never climbs again.                        *)
THEOREM EscapeNeverClimbsAgain == Spec => []NoClimbAfterDescent
<1> QED
  BY InvNoClimb, RpMeshInvariant, PTL
=============================================================================
