------------------------------ MODULE NordRing ------------------------------
(***************************************************************************)
(* The bypass ring of node-router decoupling (NoRDRouter): one cycle       *)
(* through all routers of the mesh, along the top row and then down and up *)
(* the columns.  A router that is off still forwards what comes by its     *)
(* ring input to its ring output, through the interface of its node.       *)
(***************************************************************************)
EXTENDS Mesh

(* The columns are walked in pairs, one down and one up: the constructor   *)
(* lays the ring out for any gK, but only an even one closes it.           *)
ASSUME EvenAssumption == K >= 4 /\ \E h \in 0 .. K : K = 2 * h

Down(r) == Col(r) % 2 = 1       \* its column is walked down

(* Bug: the corner of the top row is not treated apart. *)
Bug_RingOut(r) ==
  IF Row(r) = 0 THEN East
  ELSE IF Down(r) THEN IF Row(r) = K - 1 THEN West ELSE South
  ELSE IF Row(r) = 1 /\ Col(r) > 0 THEN West ELSE North

(* _ring_out_port and _ring_in_port.                                       *)
RingOut(r) ==
  IF Row(r) = 0 THEN IF Col(r) < K - 1 THEN East ELSE South
  ELSE IF Down(r) THEN IF Row(r) = K - 1 THEN West ELSE South
  ELSE IF Row(r) = 1 /\ Col(r) > 0 THEN West ELSE North

RingIn(r) ==
  IF Row(r) = 0 THEN IF Col(r) = 0 THEN South ELSE West
  ELSE IF Down(r) THEN IF Row(r) = 1 /\ Col(r) < K - 1 THEN East ELSE North
  ELSE IF Row(r) = K - 1 THEN East ELSE South

RingNext(r) == Nbr(r, RingOut(r))

(* _ring_id: the place of the router on the ring.                          *)
RingId(r) ==
  IF Row(r) = 0 THEN Col(r)
  ELSE (K - Col(r)) * (K - 1) + (IF Down(r) THEN Row(r) ELSE K - Row(r))
=============================================================================
