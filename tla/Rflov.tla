------------------------------- MODULE Rflov -------------------------------
(***************************************************************************)
(* The restricted fly-over (R-FLOV) power-gating protocol of RFLOVRouter.  *)
(*                                                                         *)
(* All routers advance in lock step: the traffic manager runs one phase of *)
(* a cycle on every router before the next phase.  ReadInputs consumes the *)
(* handshakes that arrive, PowerStateEvaluate moves the power state        *)
(* machine and queues announcements, Evaluate answers neighbours that      *)
(* drain and moves packets, and WriteOutputs puts handshakes and flits on  *)
(* the channels, which deliver them two cycles later.                      *)
(*                                                                         *)
(* A router is gated only if its _router_state is FALSE, which the network *)
(* sets once at construction (Gateable).  Nothing sets it back, so a       *)
(* router that is off stays off and the wakeup state is unreachable in     *)
(* this router class; the adaptive router is where wake-up is modelled.    *)
(***************************************************************************)
EXTENDS Mesh

CONSTANTS
  Gateable,        \* the routers with _router_state = false
  Busy,            \* gateable routers whose node may inject or eject packets
  DrainThreshold,  \* drain_threshold: cycles a drain may last
  MaxHid,          \* bound: a router starts no drain once a hid reaches it
  MaxDisturbed,    \* bound: the node is idle once a hid of the router reaches it
  Traffic          \* links <<r, p>> that may carry packets

ASSUME RflovAssumption ==
  /\ Gateable \subseteq Router \ BottomRow
  /\ Busy \subseteq Gateable
  /\ DrainThreshold \in Nat
  /\ MaxHid \in Nat
  /\ MaxDisturbed \in Nat
  /\ Traffic \subseteq {l \in Router \X Port : ~Boundary(l[1], l[2])}

VARIABLES
  phase,     \* the phase of the cycle that runs next
  power,     \* _power_state
  view,      \* _neighbor_states
  tags,      \* _drain_tags, as the set of ports whose tag is up
  sent,      \* _drain_done_sent, as a set of ports
  reqHid,    \* _req_hids (counted from 0, the code from -1)
  respHid,   \* _resp_hids
  timer,     \* _drain_timer
  wake,      \* routers with _wakeup_signal up
  out,       \* _out_queue_handshakes, then the value written to the channel
  wire,      \* handshake in the channel's wait queue, by sender and port
  avail,     \* handshake at the channel's output, by sender and port
  active,    \* links with an active VC, a crossbar flit or an output flit
  occupied,  \* gateable routers with a VC that is not idle or a queued flit
  flitWire,  \* links with a flit in the channel's wait queue
  flitAvail  \* links with a flit at the channel's output

ctrl == <<power, view, tags, sent, reqHid, respHid, timer, wake>>
chans == <<out, wire, avail>>
packets == <<active, occupied, flitWire, flitAvail>>
vars == <<phase, ctrl, chans, packets>>

PowerState == {"on", "draining", "off"}

(* A handshake: the announced state (or "none"), the drain-done flag and   *)
(* the identifier the receiver compares or remembers.                      *)
Message == [new : PowerState \cup {"none"}, done : BOOLEAN, hid : Nat]
NoMsg   == [new |-> "none", done |-> FALSE, hid |-> 0]

Link == Router \X Port

Arriving(r, p) == avail[Nbr(r, p)][Opp(p)]

Init ==
  /\ phase = "read"
  /\ power = [r \in Router |-> "on"]
  /\ view = [r \in Router |-> [p \in Port |-> IF Boundary(r, p) THEN "off" ELSE "on"]]
  /\ tags = [r \in Router |-> {}]
  /\ sent = [r \in Router |-> {}]
  /\ reqHid = [r \in Router |-> [p \in Port |-> 0]]
  /\ respHid = [r \in Router |-> [p \in Port |-> 0]]
  /\ timer = [r \in Router |-> 0]
  /\ wake = {}
  /\ out = [r \in Router |-> [p \in Port |-> NoMsg]]
  /\ wire = [r \in Router |-> [p \in Port |-> NoMsg]]
  /\ avail = [r \in Router |-> [p \in Port |-> NoMsg]]
  /\ active = {}
  /\ occupied = {}
  /\ flitWire = {}
  /\ flitAvail = {}

-----------------------------------------------------------------------------
(* Every cycle starts with the traffic manager: it calls IdleDetected() on *)
(* the router of a node that is idle and WakeUp() on that of a busy one.   *)
(* ReadInputs follows: _ReceiveHandshakes, then _HandshakeEvaluate.        *)

(* The timer of a drain counts the idle cycles of the node as well as the  *)
(* cycles of the drain. *)
IdleDetected(r) == IF power[r] = "draining" THEN timer[r] + 1 ELSE timer[r]

NodeCycle(busy) ==
  /\ wake' = wake \cup busy
  /\ timer' = [r \in Router |-> IF r \in busy THEN timer[r] ELSE IdleDetected(r)]

MayBeBusy == {r \in Busy : \A p \in Port : reqHid[r][p] < MaxDisturbed}

(* Bug: a pure drain-done handshake overwrites the view as well. *)
Bug_UpdatesView(r, p, m) == m # NoMsg

UpdatesView(r, p, m) ==
  \/ m.new \in {"off", "draining"}
  \/ m.new = "on" /\ view[r][p] = "draining"

(* Bug: the answer to an earlier drain is taken for the current one. *)
Bug_Consents(r, p, m) == m.done /\ power[r] = "draining"

Consents(r, p, m) == m.done /\ m.hid = reqHid[r][p] /\ power[r] = "draining"

ReadInputs ==
  /\ phase = "read"
  /\ phase' = "power"
  /\ \E busy \in SUBSET MayBeBusy : NodeCycle(busy)
  /\ view' = [r \in Router |-> [p \in Port |->
                IF UpdatesView(r, p, Arriving(r, p)) THEN Arriving(r, p).new ELSE view[r][p]]]
  /\ sent' = [r \in Router |->
                {p \in sent[r] : ~UpdatesView(r, p, Arriving(r, p))}]
  /\ tags' = [r \in Router |->
                tags[r] \cup {p \in Port : Consents(r, p, Arriving(r, p))}]
  /\ respHid' = [r \in Router |-> [p \in Port |->
                IF Arriving(r, p) # NoMsg /\ ~Arriving(r, p).done
                THEN Arriving(r, p).hid ELSE respHid[r][p]]]
  /\ occupied' = occupied \cup
       {r \in Gateable : /\ power[r] # "off"
                         /\ \E p \in Port : <<Nbr(r, p), Opp(p)>> \in flitAvail}
  /\ UNCHANGED <<power, reqHid, chans, active, flitWire, flitAvail>>

-----------------------------------------------------------------------------
(* PowerStateEvaluate on every router. *)

NeighborDraining(r) == \E p \in Port : view[r][p] = "draining"
NeighborOff(r)      == \E p \in MeshPorts(r) : view[r][p] = "off"

StartsDraining(r) ==
  /\ power[r] = "on"
  /\ r \in Gateable \ wake
  /\ ~NeighborDraining(r)
  /\ ~NeighborOff(r)
  /\ \A p \in Port : reqHid[r][p] < MaxHid

(* Bug: only the neighbour to the North has priority. *)
Bug_Yields(r) == view[r][North] \in {"draining", "off"} /\ ~Boundary(r, North)

(* Bug: every draining neighbour has priority, so two of them both yield. *)
Bug_YieldsToAll(r) == \E p \in MeshPorts(r) : view[r][p] \in {"draining", "off"}

(* A neighbour to the West or North that drains or is off has priority.    *)
Yields(r) ==
  \E p \in {West, North} :
    \/ view[r][p] = "draining"
    \/ view[r][p] = "off" /\ ~Boundary(r, p)

Drained(r)    == tags[r] = Port /\ r \notin occupied
DrainOver(r)  == timer[r] + 1 > DrainThreshold

Cancels(r)    == power[r] = "draining" /\ r \in wake
Defers(r)     == power[r] = "draining" /\ r \notin wake /\ Yields(r)
PowersOff(r)  == power[r] = "draining" /\ r \notin wake /\ ~Yields(r) /\ Drained(r)
GivesUp(r)    == power[r] = "draining" /\ r \notin wake /\ ~Yields(r) /\ ~Drained(r)
                 /\ DrainOver(r)

NextPower(r) ==
  CASE StartsDraining(r)                      -> "draining"
    [] PowersOff(r)                           -> "off"
    [] Cancels(r) \/ Defers(r) \/ GivesUp(r)  -> "on"
    [] OTHER                                  -> power[r]

(* Bug: a router that defers does not announce that it is on again. *)
Bug_AnnouncesOn(r) ==
  IF NextPower(r) = power[r] \/ Defers(r) THEN {} ELSE MeshPorts(r)

(* A change of state is announced on the mesh ports; only the router that  *)
(* defers to a neighbour announces it on every port.                       *)
AnnouncesOn(r) ==
  CASE NextPower(r) = power[r] -> {}
    [] Defers(r)               -> Port
    [] OTHER                   -> MeshPorts(r)

PowerStateEvaluate ==
  /\ phase = "power"
  /\ phase' = "eval"
  /\ power' = [r \in Router |-> NextPower(r)]
  /\ tags' = [r \in Router |->
               CASE StartsDraining(r) -> BoundaryPorts(r)
                 [] power[r] = "draining" /\ NextPower(r) = "draining" -> tags[r]
                 [] OTHER -> {}]
  /\ timer' = [r \in Router |->
                IF power[r] = "draining" /\ NextPower(r) = "draining"
                THEN timer[r] + 1 ELSE 0]
  /\ wake' = {r \in wake : power[r] = "off"}
  /\ reqHid' = [r \in Router |-> [p \in Port |->
                 IF p \in AnnouncesOn(r) THEN reqHid[r][p] + 1 ELSE reqHid[r][p]]]
  /\ out' = [r \in Router |-> [p \in Port |->
              IF p \in AnnouncesOn(r)
              THEN [new |-> NextPower(r), done |-> FALSE, hid |-> reqHid[r][p] + 1]
              ELSE NoMsg]]
  /\ UNCHANGED <<view, sent, respHid, wire, avail, packets>>

-----------------------------------------------------------------------------
(* Evaluate: the router pipeline, then _HandshakeResponse.  The pipeline   *)
(* is abstract: a link becomes active when VC allocation succeeds, which   *)
(* _VCAllocUpdate refuses towards a neighbour that drains, and stops being *)
(* active when its last flit has left the output buffer.                   *)

(* Bug: VC allocation does not look at the state of the neighbour again. *)
Bug_MayActivate(l) ==
  LET r == l[1]  p == l[2] IN
  power[r] # "off" /\ (r \in Gateable => r \in occupied)

MayActivate(l) ==
  LET r == l[1]  p == l[2] IN
  /\ power[r] # "off"
  /\ view[r][p] # "draining"
  /\ view[r][p] = "off" => ~Boundary(Nbr(r, p), p)
  /\ r \in Gateable => r \in occupied

(* Bug: the answer is sent again in every cycle. *)
Bug_RespondsAgain(r, p, act) ==
  power[r] # "off" /\ view[r][p] = "draining" /\ <<r, p>> \notin act

(* Bug: the answer does not wait for the packets on the link. *)
Bug_RespondsEarly(r, p, act) ==
  power[r] # "off" /\ view[r][p] = "draining" /\ p \notin sent[r]

Responds(r, p, act) ==
  /\ power[r] # "off"
  /\ view[r][p] = "draining"
  /\ p \notin sent[r]
  /\ <<r, p>> \notin act

Evaluate ==
  /\ phase = "eval"
  /\ phase' = "write"
  /\ \E act \in SUBSET Traffic :
       /\ \A l \in act \ active : MayActivate(l)
       /\ active' = act
       /\ \E occ \in SUBSET {r \in Gateable : \E l \in Traffic : Nbr(l[1], l[2]) = r \/ l[1] = r} :
            /\ {l[1] : l \in act} \cap Gateable \subseteq occ
            /\ occ \subseteq occupied \cup {r \in Busy : power[r] # "off"}
            /\ occupied' = occ
       /\ out' = [r \in Router |-> [p \in Port |->
                   IF Responds(r, p, act)
                   THEN [new |-> out[r][p].new, done |-> TRUE, hid |-> respHid[r][p]]
                   ELSE out[r][p]]]
       /\ sent' = [r \in Router |-> sent[r] \cup {p \in Port : Responds(r, p, act)}]
  /\ UNCHANGED <<power, view, tags, reqHid, respHid, timer, wake, wire, avail,
                 flitWire, flitAvail>>

-----------------------------------------------------------------------------
(* WriteOutputs: handshakes and flits enter the channels, and the channels *)
(* move on by one cycle.  A router that is off passes a flit straight to   *)
(* the opposite port (_RFlovStep).                                         *)

FliesOver == {<<Nbr(l[1], l[2]), l[2]>> : l \in {m \in flitAvail : power[Nbr(m[1], m[2])] = "off"}}

WriteOutputs ==
  /\ phase = "write"
  /\ phase' = "read"
  /\ wire' = out
  /\ avail' = wire
  /\ out' = [r \in Router |-> [p \in Port |-> NoMsg]]
  /\ flitAvail' = flitWire
  /\ \E snd \in SUBSET active : flitWire' = snd \cup FliesOver
  /\ UNCHANGED <<ctrl, active, occupied>>

Next ==
  \/ ReadInputs
  \/ PowerStateEvaluate
  \/ Evaluate
  \/ WriteOutputs

Spec == Init /\ [][Next]_vars
-----------------------------------------------------------------------------
(* Properties.                                                             *)

(* The values the variables may take, the same on every router.            *)
TypeOK ==
  /\ phase \in {"read", "power", "eval", "write"}
  /\ power \in [Router -> PowerState]
  /\ view \in [Router -> [Port -> PowerState]]
  /\ tags \in [Router -> SUBSET Port]
  /\ sent \in [Router -> SUBSET Port]
  /\ reqHid \in [Router -> [Port -> Nat]]
  /\ respHid \in [Router -> [Port -> Nat]]
  /\ timer \in [Router -> Nat]
  /\ wake \subseteq Router
  /\ out \in [Router -> [Port -> Message]]
  /\ wire \in [Router -> [Port -> Message]]
  /\ avail \in [Router -> [Port -> Message]]
  /\ active \subseteq Traffic
  /\ occupied \subseteq Gateable
  /\ flitWire \subseteq Link
  /\ flitAvail \subseteq Link

(* R-FLOV never gates two neighbouring routers: a packet flies over at     *)
(* most one router between two routers that can route it.                  *)
NoAdjacentOff ==
  \A r \in Router : \A p \in MeshPorts(r) :
    ~ (power[r] = "off" /\ power[Nbr(r, p)] = "off")

(* The assertions of _HandshakeEvaluate: a neighbour that announces it is  *)
(* off was known to drain and has been answered, and no drain-done reaches *)
(* a router that is already off.                                           *)
OffIsExpected ==
  phase = "read" =>
    \A r \in Router : \A p \in Port :
      LET m == Arriving(r, p) IN
      /\ m.new = "off" => view[r][p] = "draining" /\ p \in sent[r]
      /\ m.done => power[r] # "off"

(* _HandshakeResponse does not look at the links "because handshake has    *)
(* same delay as links": once a router is off, the only flits travelling   *)
(* to it were sent by a neighbour that knows it is off.                    *)
NoFlitCutOff ==
  \A l \in flitWire \cup flitAvail :
    power[Nbr(l[1], l[2])] = "off" => view[l[1]][l[2]] = "off"

(* What a neighbour believes about a router is stale only while an         *)
(* announcement is on its way.                                             *)
ViewIsCurrent ==
  phase = "read" =>
    \A r \in Router : \A p \in MeshPorts(r) :
      \/ view[r][p] = power[Nbr(r, p)]
      \/ wire[Nbr(r, p)][Opp(p)].new # "none"
      \/ Arriving(r, p).new # "none"

(* A router goes off only in a cycle in which every mesh neighbour is on,  *)
(* knows that the router drains and has finished sending to it: no answer  *)
(* to an earlier, abandoned drain is taken for consent.                    *)
OffByConsent ==
  [][\A r \in Router : power'[r] = "off" /\ power[r] # "off" =>
       \A p \in MeshPorts(r) :
         LET n == Nbr(r, p) IN
         /\ power'[n] = "on"
         /\ view[n][Opp(p)] = "draining"
         /\ Opp(p) \in sent[n]
         /\ <<n, Opp(p)>> \notin active]_vars

(* A drain either succeeds or is abandoned once its timer is beyond        *)
(* DrainThreshold; only an idle cycle that has just been counted may have  *)
(* carried the timer there.                                                *)
DrainIsBounded ==
  \A r \in Router : timer[r] <= DrainThreshold + (IF phase = "power" THEN 1 ELSE 0)

Settled(r) ==
  \/ power[r] = "off"
  \/ power[r] = "on" /\ NeighborOff(r)

(* Without packets, and if nodes are idle from some time on, the routers   *)
(* that may be gated stop trying: each is off or next to one that is off.  *)
(* Two neighbours that keep colliding would never settle.                  *)
Settles ==
  [](active = {} /\ occupied = {}) /\ <>[](\A r \in wake : power[r] = "off")
    => <>[](\A r \in Gateable : Settled(r))

(* The traffic manager runs the phases of a cycle for as long as the       *)
(* simulation lasts.                                                       *)
Fairness ==
  /\ WF_vars(ReadInputs)
  /\ WF_vars(PowerStateEvaluate)
  /\ WF_vars(Evaluate)
  /\ WF_vars(WriteOutputs)

FairSpec == Spec /\ Fairness

-----------------------------------------------------------------------------
(* The abstract specification.                                             *)

(* The neighbour behind p consents to the current drain of r: its answer   *)
(* is in its output queue, on the wire, at the channel's output or read.   *)
Answers(m, r, p) == power[r] = "draining" /\ m.done /\ m.hid = reqHid[r][p]
GrantOut(r, p)   == Answers(out[Nbr(r, p)][Opp(p)], r, p)
GrantWire(r, p)  == Answers(wire[Nbr(r, p)][Opp(p)], r, p)
GrantAvail(r, p) == phase = "read" /\ Answers(avail[Nbr(r, p)][Opp(p)], r, p)
GrantTag(r, p)   == power[r] = "draining" /\ p \in tags[r]
Granted(r, p)    == GrantOut(r, p) \/ GrantWire(r, p) \/ GrantAvail(r, p) \/ GrantTag(r, p)

Consented == [r \in Router |-> {p \in MeshPorts(r) : Granted(r, p)}]

Abstract == INSTANCE PowerGating WITH consent <- Consented, sending <- active

(* The handshakes are as good as an agreement that is reached at once:     *)
(* consent counts from the moment a neighbour answers, no answer is ever   *)
(* lost or serves another drain, and nobody sends on after consenting.     *)
ImplementsPowerGating == Abstract!Spec
=============================================================================
