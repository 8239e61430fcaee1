------------------------------- MODULE RpMesh -------------------------------
(***************************************************************************)
(* Router parking at work: the network is configured (Parking), the        *)
(* routers that are on get their tables (RouteTables), and the head flit   *)
(* of a packet finds its way (rp_mesh and the VC and switch allocation of  *)
(* RPRouter).  A flit waits for a VC of the regular class along its        *)
(* router's table.  After 300 cycles it gives up, also a VC that it holds, *)
(* and waits for the escape VC along the tree, which it never leaves       *)
(* again.                                                                  *)
(***************************************************************************)
EXTENDS RouteTables

VARIABLE pkt   \* the head flit, or NoPacket

vars == <<parking, tables, pkt>>

(* in and want are VC classes: of the VC the flit is in and of those it    *)
(* asks for ("none" before routing); got tells that it holds one.          *)
NoPacket == [at |-> FabricManager, dest |-> FabricManager, in |-> "none", want |-> "none", got |-> FALSE]

Running == TablesDone /\ search = Idle

Init == ParkingInit /\ TablesInit /\ pkt = NoPacket

(* The constructors of Network and KNCube. *)
Configure ==
  /\ \/ ParkingNext /\ UNCHANGED tables
     \/ TablesNext /\ UNCHANGED parking
  /\ UNCHANGED pkt

(* _GeneratePacket and _Inject: parked cores neither send nor receive. *)
Inject ==
  /\ Running /\ pkt = NoPacket
  /\ \E s, d \in Router \ offCores :
       pkt' = [NoPacket EXCEPT !.at = s, !.dest = d, !.in = "injection"]
  /\ UNCHANGED <<parking, tables>>

(* _RouteUpdate and rp_mesh. *)
Route ==
  /\ pkt.in # "none" /\ pkt.at # pkt.dest /\ pkt.want = "none"
  /\ pkt' = [pkt EXCEPT !.want = IF pkt.in = "escape" THEN "escape" ELSE "regular"]
  /\ UNCHANGED <<parking, tables>>

(* _VCAllocUpdate: a VC is granted. *)
VCAlloc(class) ==
  /\ pkt.want = class /\ ~pkt.got
  /\ pkt' = [pkt EXCEPT !.got = TRUE]
  /\ UNCHANGED <<parking, tables>>

(* Bug: a flit that holds a VC does not time out. *)
Bug_MayTimeOut == pkt.want = "regular" /\ ~pkt.got

MayTimeOut == pkt.want = "regular"

(* 300 cycles after rtime in _VCAllocUpdate, or in _SWAllocUpdate with a   *)
(* VC other than the escape VC: routed again, for the escape VC.  (A flit  *)
(* that waits for the escape VC is routed as before.)                      *)
Timeout ==
  /\ MayTimeOut
  /\ pkt' = [pkt EXCEPT !.want = "escape", !.got = FALSE]
  /\ UNCHANGED <<parking, tables>>

OutPort == IF pkt.want = "escape" THEN escape[pkt.at][pkt.dest] ELSE table[pkt.at][pkt.dest]

(* _SWAllocUpdate: to the router behind the port. *)
Traverse(class) ==
  /\ pkt.want = class /\ pkt.got
  /\ pkt' = [pkt EXCEPT !.at = Nbr(pkt.at, OutPort), !.in = class, !.want = "none", !.got = FALSE]
  /\ UNCHANGED <<parking, tables>>

Eject ==
  /\ pkt.in # "none" /\ pkt.at = pkt.dest
  /\ pkt' = NoPacket
  /\ UNCHANGED <<parking, tables>>

Next ==
  \/ Configure
  \/ Inject \/ Route \/ Timeout \/ Eject
  \/ \E class \in {"regular", "escape"} : VCAlloc(class) \/ Traverse(class)

(* The random draws find every core in the end.  Only the escape VC is     *)
(* sure to come: the regular ones may be in a circle of waiting packets.   *)
Fairness ==
  /\ WF_vars(Configure)
  /\ WF_vars(Route) /\ WF_vars(Timeout) /\ WF_vars(Eject)
  /\ WF_vars(VCAlloc("escape")) /\ WF_vars(Traverse("escape"))

Spec == Init /\ [][Next]_vars /\ Fairness

-----------------------------------------------------------------------------
(* Properties.                                                             *)

(* No flit comes to a router that is parked: _InputQueuing asserts it.     *)
FlitsMeetRouters == pkt.in # "none" => pkt.at \in on

(* The regular tables of all routers fit together: every regular hop is    *)
(* one of a shortest path.                                                 *)
Closer ==
  [][Traverse("regular") => Hops(pkt'.at, pkt.dest) = Hops(pkt.at, pkt.dest) - 1]_vars

(* The escape routes of all routers follow one tree, up and then down: a   *)
(* flit that has come down from the fabric manager never climbs again, and *)
(* escape VCs cannot wait for each other in a circle.  (The tables do not  *)
(* change any more, so it is enough to look while there is no packet.)     *)
EscNext(r, d) == Nbr(r, escape[r][d])
NoClimbAfterDescent ==
  Running /\ pkt = NoPacket => \A r \in on : \A d \in on \ {r} :
    LET s == EscNext(r, d) IN
      Depth(s) > Depth(r) /\ s # d => Depth(EscNext(s, d)) > Depth(s)

(* Whatever happens to the regular VCs, packets arrive.                    *)
Delivered == pkt # NoPacket ~> pkt = NoPacket
=============================================================================
