---------------------------- MODULE NordRouting ----------------------------
(***************************************************************************)
(* The routing of node-router decoupling (nord_mesh, routefunc.cpp) and    *)
(* the way of one packet's head flit through a mesh in which some routers  *)
(* are off: the routers that are on route it, those that are off pass it   *)
(* from their ring input through their node's interface to their ring      *)
(* output.                                                                 *)
(*                                                                         *)
(* Two VCs are the escape ring, ordered by a dateline: "low" (the last but *)
(* one) and "high" (the last).  The others are one class here, "free".     *)
(* The power states stand still; every set of routers above the bottom row *)
(* may be off.  Only nodes whose router is on send and receive: a parked   *)
(* core injects nothing and is no destination.                             *)
(***************************************************************************)
EXTENDS NordRing, FiniteSets

CONSTANTS
  Gate,         \* the routers that may be off
  OffCounts,    \* how many of them are off in a run
  MaxMisroute   \* gMissRouteThreshold

ASSUME NordRoutingAssumption ==
  /\ Gate \subseteq Router \ BottomRow
  /\ OffCounts \subseteq Nat
  /\ MaxMisroute \in Nat

VARIABLES
  off,      \* the routers that are off
  src,      \* f->src
  dest,     \* f->dest
  at,       \* the router whose buffer or bypass latch holds the packet
  inp,      \* the input port it came by, Local when injected here
  vc,       \* the class of VC it is in
  hops,     \* f->hops, up to the length of the shortest way
  misroute  \* f->misroute_hops, up to MaxMisroute + 1

net    == <<off, src, dest>>
packet == <<at, inp, vc, hops, misroute>>
vars   == <<net, packet>>

Local   == 4
Escape  == {"low", "high"}
VCClass == Escape \cup {"free"}

-----------------------------------------------------------------------------
Abs(i)         == IF i < 0 THEN -i ELSE i
AtMost(i, top) == IF i < top THEN i ELSE top
Between(i, a, b) == (a <= i /\ i <= b) \/ (b <= i /\ i <= a)

Distance(r, s) == Abs(Row(r) - Row(s)) + Abs(Col(r) - Col(s))
Shortest       == Distance(src, dest)

XPort == IF Col(at) < Col(dest) THEN East ELSE West
YPort == IF Row(at) < Row(dest) THEN South ELSE North
XY    == IF Col(at) # Col(dest) THEN XPort ELSE YPort     \* dor_next_mesh
YX    == IF Row(at) # Row(dest) THEN YPort ELSE XPort

(* Bug: the state of the neighbour is not looked at. *)
Bug_Available(p) == p # inp

Available(p) == p # inp /\ (Nbr(at, p) \notin off \/ p = RingOut(at))

(* Bug: a packet never gives up its adaptive way. *)
Bug_GoToEscape == FALSE

GoToEscape == misroute > MaxMisroute

(* Bug: a packet on the escape ring keeps its VC. *)
Bug_RingClass == IF vc \in Escape THEN vc
                 ELSE IF RingId(dest) > RingId(at) THEN "low" ELSE "high"

(* Bug: the two sides of the dateline are swapped. *)
Bug_RingClass_Swapped == IF RingId(dest) > RingId(at) THEN "high" ELSE "low"

(* The dateline: "low" when the way to the destination does not wrap.      *)
RingClass == IF RingId(dest) > RingId(at) THEN "low" ELSE "high"

(* A packet that was injected here is not bound to the escape ring by the  *)
(* VC it was injected on.                                                  *)
InEscape == vc \in Escape /\ inp # Local

(* nord_mesh in a router that is on: the outputs it offers.                *)
nord_mesh ==
  LET productive == {p \in {XY, YX} : Available(p)}
      adaptive   == IF InEscape \/ GoToEscape THEN {}
                    ELSE IF productive # {} THEN productive
                    ELSE {RingOut(at)} \ {inp}
  IN {<<RingOut(at), RingClass>>} \cup (adaptive \X {"free"})

(* nord_mesh in the interface of a router that is off: the VC on which the *)
(* packet goes on.                                                         *)
BypassClass == IF vc \in Escape THEN vc
               ELSE IF GoToEscape THEN RingClass ELSE "free"

-----------------------------------------------------------------------------
(* The head flit leaves to the next router.  A hop counts as misrouted     *)
(* when it is one too many, follows a hop away from the destination or is  *)
(* taken outside the rectangle of source and destination.                  *)

Detour ==
  \/ inp # Local /\ Distance(Nbr(at, inp), dest) < Distance(at, dest)
  \/ ~Between(Row(at), Row(src), Row(dest))
  \/ ~Between(Col(at), Col(src), Col(dest))

Leave(p, class, steps) ==
  /\ at'   = Nbr(at, p)
  /\ inp'  = Opp(p)
  /\ vc'   = class
  /\ hops' = AtMost(hops + steps, Shortest)
  /\ misroute' = IF hops + steps >= Shortest \/ Detour
                   THEN AtMost(misroute + 1, MaxMisroute + 1) ELSE misroute
  /\ UNCHANGED net

(* A router that is on routes, allocates and sends.                        *)
Route ==
  /\ at \notin off /\ at # dest
  /\ \E c \in nord_mesh : Leave(c[1], c[2], 1)

(* A router that is off passes the packet on through the interface; the    *)
(* way in and the way out both count as a hop.                             *)
Bypass ==
  /\ at \in off
  /\ Leave(RingOut(at), BypassClass, 2)

Init ==
  /\ off \in SUBSET Gate /\ Cardinality(off) \in OffCounts
  /\ src \in Router \ off
  /\ dest \in Router \ (off \cup {src})
  /\ at = src /\ inp = Local
  /\ vc \in VCClass
  /\ hops = 0 /\ misroute = 0

Next == Route \/ Bypass

Spec == Init /\ [][Next]_vars /\ WF_vars(Next)

-----------------------------------------------------------------------------
(* Every variable keeps its type: a packet stays in the mesh, in a VC and  *)
(* port that exist, and its destination is never a router that is off.     *)
TypeOK ==
  /\ off \subseteq Router \ BottomRow
  /\ src \in Router \ off /\ dest \in Router \ off
  /\ at \in Router
  /\ inp \in MeshPorts(at) \cup {Local}
  /\ vc \in VCClass
  /\ hops \in 0 .. Shortest
  /\ misroute \in 0 .. MaxMisroute + 1

(* What reaches a router that is off has come by its ring input: its       *)
(* bypass is the only way through it (the assertion of _NoRDStep that any  *)
(* other input is the node's).                                             *)
OffByRing == at \in off => inp = RingIn(at)

(* No router before r on the ring is on: a packet that crossed the         *)
(* dateline and has come to r met no router that could change its VC.      *)
Wrapped(r) == \A s \in Router : RingId(s) < RingId(r) => s \in off

(* The buffers of the escape ring, in an order: those of the high VC whose *)
(* packets have yet to cross the dateline, those of the high VC after it,  *)
(* those of the low VC, each along the ring.                               *)
Phase == IF vc = "low" THEN 2 ELSE IF Wrapped(at) THEN 1 ELSE 0

(* A packet on the escape ring stays on it and takes the buffers in that   *)
(* order, whichever routers are off, so packets on the escape VCs cannot   *)
(* wait for each other in a circle.  (The interface of a router that is    *)
(* off keeps the VC, so the packet may go far past the dateline on the     *)
(* high one.)                                                              *)
TakesRingInOrder ==
  InEscape => /\ InEscape'
              /\ \/ Phase' > Phase
                 \/ Phase' = Phase /\ RingId(at)' > RingId(at)
EscapeInOrder == [][TakesRingInOrder]_vars

(* Every packet arrives: misrouted hops drive it to the escape ring at     *)
(* last, and the ring passes every router.                                 *)
Delivered == <>(at = dest)
=============================================================================
