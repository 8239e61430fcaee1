-------------------------------- MODULE Flov --------------------------------
(***************************************************************************)
(* The adaptive fly-over (FLOV) power-gating protocol of FLOVRouter.       *)
(*                                                                         *)
(* Every router follows one of three policies, moved up and down by the    *)
(* votes of the traffic manager: G-FLOV may gate neighbouring routers,     *)
(* R-FLOV gates no two neighbours, No-FLOV keeps every router on.  Routers *)
(* that are off relay handshakes to the opposite port, so that what counts *)
(* is the downstream router, the next one in a direction that is not off.  *)
(* The simulation is a lock-step one, as in module Rflov.                  *)
(***************************************************************************)
EXTENDS Mesh

CONSTANTS
  Gateable,         \* the routers with _router_state = false
  Busy,             \* gateable routers whose node may inject or eject packets
  DrainThreshold,   \* drain_threshold
  BetThreshold,     \* bet_threshold: cycles off before a wake-up
  WakeupThreshold,  \* wakeup_threshold: cycles a wake-up takes
  Traffic,          \* links <<r, p>> that may carry packets
  MaxDrains,        \* bound: drains a router may start
  MaxTurns,         \* bound: policy turns
  MinEpoch,         \* bound: cycles between two policy turns (at least)
  NoRouter          \* the logical neighbour beyond the edge (-1 in the code)

ASSUME FlovAssumption ==
  /\ Gateable \subseteq Router \ BottomRow
  /\ Busy \subseteq Gateable
  /\ {DrainThreshold, BetThreshold, WakeupThreshold} \subseteq Nat
  /\ {MaxDrains, MaxTurns, MinEpoch} \subseteq Nat
  /\ BetThreshold >= 2
  /\ Traffic \subseteq {l \in Router \X Port : ~Boundary(l[1], l[2])}
  /\ NoRouter \notin Router

VARIABLES
  phase,     \* the phase of the cycle that runs next
  policy,    \* _flov_policy
  power,     \* _power_state
  down,      \* _downstream_states
  nbr,       \* _neighbor_states
  logical,   \* _logical_neighbors
  tags,      \* _drain_tags, as the set of ports whose tag is up
  sent,      \* _drain_done_sent, as a set of ports
  reqHid,    \* _req_hids (counted from 0, the code from -1)
  respHid,   \* _resp_hids
  timer,     \* _drain_timer, _off_timer or _wakeup_timer, by power state
  wake,      \* routers with _wakeup_signal up
  drains,    \* _drain_counter
  out,       \* _out_queue_handshakes
  wire,      \* handshake in the channel's wait queue, by sender and port
  avail,     \* handshake at the channel's output, by sender and port
  active,    \* links with an active VC, a crossbar flit or an output flit
  occupied,  \* gateable routers with a VC that is not idle or a queued flit
  flitWire,  \* links with a flit in the channel's wait queue
  flitAvail, \* links with a flit at the channel's output
  turns,     \* policy turns so far
  since      \* cycles since the last policy turn, up to MinEpoch

ctrl    == <<power, down, nbr, logical, tags, sent, reqHid, respHid, timer, wake, drains>>
chans   == <<wire, avail>>
packets == <<active, occupied, flitWire, flitAvail>>
voting  == <<policy, turns, since>>
vars    == <<phase, voting, ctrl, out, chans, packets>>

PowerState == {"on", "draining", "off", "wakeup"}
Policy     == {"gflov", "rflov", "noflov"}
Idle       == {"on", "draining"}     \* the states with a working pipeline
Bypassed   == {"off", "wakeup"}      \* the states in which flits fly over

(* new: state of the downstream router beyond the channel; src: state of   *)
(* the router id that announces; logical: the downstream router itself.    *)
Message == [new : PowerState \cup {"none"}, src : PowerState \cup {"none"},
            done : BOOLEAN, hid : Nat, id : Router \cup {NoRouter},
            logical : Router \cup {NoRouter}]
NoMsg   == [new |-> "none", src |-> "none", done |-> FALSE, hid |-> 0,
            id |-> NoRouter, logical |-> NoRouter]

Arriving(r, p) == avail[Nbr(r, p)][Opp(p)]
InQueue(r)     == \E p \in Port : <<Nbr(r, p), Opp(p)>> \in flitAvail

Init ==
  /\ phase = "read"
  /\ policy = [r \in Router |-> "gflov"]
  /\ power = [r \in Router |-> "on"]
  /\ down = [r \in Router |-> [p \in Port |-> IF Boundary(r, p) THEN "off" ELSE "on"]]
  /\ nbr = down
  /\ logical = [r \in Router |-> [p \in Port |-> IF Boundary(r, p) THEN NoRouter ELSE Nbr(r, p)]]
  /\ tags = [r \in Router |-> {}]
  /\ sent = [r \in Router |-> {}]
  /\ reqHid = [r \in Router |-> [p \in Port |-> 0]]
  /\ respHid = [r \in Router |-> [p \in Port |-> 0]]
  /\ timer = [r \in Router |-> 0]
  /\ wake = {}
  /\ drains = [r \in Router |-> 0]
  /\ out = [r \in Router |-> [p \in Port |-> NoMsg]]
  /\ wire = [r \in Router |-> [p \in Port |-> NoMsg]]
  /\ avail = [r \in Router |-> [p \in Port |-> NoMsg]]
  /\ active = {}
  /\ occupied = {}
  /\ flitWire = {}
  /\ flitAvail = {}
  /\ turns = 0
  /\ since = 0

-----------------------------------------------------------------------------
(* The end of a monitoring epoch: the traffic manager moves the policy of  *)
(* every router outside the bottom row by the sign of its votes.  The      *)
(* policy of a router that is never gated has no effect and is left alone. *)

Aggressed(q) == IF q = "noflov" THEN "rflov" ELSE "gflov"
Regressed(q) == IF q = "gflov" THEN "rflov" ELSE "noflov"

(* A router that is off asks to be woken when its policy is tightened: at  *)
(* once for No-FLOV, only next to another router that is off for R-FLOV.   *)
WakesOnRegress(r) ==
  /\ power[r] = "off"
  /\ \/ policy[r] = "gflov" /\ \E p \in Port : ~Boundary(r, p) /\ nbr[r][p] = "off"
     \/ policy[r] = "rflov"

PolicyTurn ==
  /\ phase = "read"
  /\ since = MinEpoch
  /\ turns < MaxTurns
  /\ \E up, dn \in SUBSET Gateable :
       /\ up \cap dn = {}
       /\ up \cup dn # {}
       /\ policy' = [r \in Router |-> CASE r \in up -> Aggressed(policy[r])
                                        [] r \in dn -> Regressed(policy[r])
                                        [] OTHER -> policy[r]]
       /\ wake' = wake \cup {r \in dn : WakesOnRegress(r)}
  /\ turns' = turns + 1
  /\ since' = 0
  /\ UNCHANGED <<phase, power, down, nbr, logical, tags, sent, reqHid, respHid, timer,
                 drains, out, chans, packets>>

-----------------------------------------------------------------------------
(* A cycle starts with the traffic manager, which calls IdleDetected() on  *)
(* the router of a node that is idle and WakeUp() on that of a busy one.   *)
(* ReadInputs follows: _ReceiveHandshakes, then the two passes of          *)
(* _HandshakeEvaluate on every router.  The first pass updates what the    *)
(* router knows; the second relays the handshakes of a router that is off  *)
(* or waking up.                                                           *)

(* Bug: the idle cycles of a router that is off are not counted. *)
Bug_IdleDetected(r) == IF power[r] = "draining" THEN timer[r] + 1 ELSE timer[r]

(* The timer of a drain and that of a router that is off count the idle    *)
(* cycles of the node, besides what PowerStateEvaluate counts.             *)
IdleDetected(r) ==
  IF power[r] = "draining" \/ (power[r] = "off" /\ timer[r] < BetThreshold)
  THEN timer[r] + 1 ELSE timer[r]

NodeCycle(busy) ==
  /\ wake' = wake \cup busy
  /\ timer' = [r \in Router |-> IF r \in busy THEN timer[r] ELSE IdleDetected(r)]

(* Bug: a handshake that only says drain-done overwrites the state. *)
Bug_NewDown(r, p) ==
  IF Arriving(r, p) # NoMsg THEN Arriving(r, p).new ELSE down[r][p]

NewDown(r, p) ==
  IF Arriving(r, p).new # "none" THEN Arriving(r, p).new ELSE down[r][p]

(* Bug: the logical neighbour is kept although the announcement names a    *)
(* new one, unless there is none left.                                     *)
Bug_NewLogical(r, p) ==
  IF Arriving(r, p) # NoMsg /\ NewDown(r, p) = "off" THEN NoRouter ELSE logical[r][p]

NewLogical(r, p) ==
  LET m == Arriving(r, p) IN
  IF m.logical # NoRouter THEN m.logical
  ELSE IF m # NoMsg /\ NewDown(r, p) = "off" THEN NoRouter
  ELSE logical[r][p]

(* Bug: only a neighbour that drains, or gives up draining, is answered    *)
(* again.                                                                  *)
Bug_Rearms(r, m) ==
  power[r] \in Idle /\ m.src \in {"on", "draining"}

(* In which states of this router an announcement re-arms the answer. *)
Rearms(r, m) ==
  CASE power[r] = "on"       -> m.src # "none"
    [] power[r] = "draining" -> m.src \in {"on", "draining", "wakeup"}
    [] power[r] = "wakeup"   -> m.src = "wakeup"
    [] power[r] = "off"      -> FALSE

(* Bug: the answer to an earlier, abandoned drain is taken for consent. *)
Bug_Consents(r, p) == power[r] \in {"draining", "wakeup"} /\ Arriving(r, p).done

Consents(r, p) ==
  LET m == Arriving(r, p) IN
  power[r] \in {"draining", "wakeup"} /\ m.done /\ m.hid = reqHid[r][p]

TagsAfter(r)  == tags[r] \cup {p \in Port : Consents(r, p)}
ArmedAfter(r) == {p \in sent[r] : ~Rearms(r, Arriving(r, p))}
RespHidAfter(r, p) ==
  IF Arriving(r, p).src # "none" THEN Arriving(r, p).hid ELSE respHid[r][p]

(* What an off router forwards: the drain-done flag goes on only towards a *)
(* downstream router that waits for it.                                    *)
Relayed(r, p) ==
  LET m == Arriving(r, p)
      d == m.done /\ NewDown(r, Opp(p)) \in {"draining", "wakeup"}
  IN IF Boundary(r, Opp(p)) \/ (m.new = "none" /\ m.src = "none" /\ ~d)
     THEN NoMsg ELSE [m EXCEPT !.done = d]

(* The second pass of a router that wakes up, on the handshake at port p,  *)
(* over the pair s = [out, sent] built so far.                             *)
Answer(r, p, s) ==
  [out  |-> [s.out EXCEPT ![p] =
               [(IF @ = NoMsg THEN [NoMsg EXCEPT !.id = r] ELSE @)
                  EXCEPT !.done = TRUE, !.hid = RespHidAfter(r, p)]],
   sent |-> s.sent \cup {p}]

Tagged(r, p) == p \in TagsAfter(r) /\ NewDown(r, p) # "off"

(* The answer of the router at p is what the one that wakes up beyond the  *)
(* opposite port waits for, and the other way round.                       *)
AnswerWaiting(r, p, s) ==
  LET o    == Opp(p)
      far  == /\ Arriving(r, p).done /\ Tagged(r, p)
              /\ NewDown(r, o) = "wakeup" /\ o \notin s.sent
      near == Tagged(r, o) /\ NewDown(r, p) = "wakeup" /\ p \notin s.sent
  IN IF far THEN Answer(r, o, s) ELSE IF near THEN Answer(r, p, s) ELSE s

(* The news that a router beyond went off goes on without a state.         *)
PassOff(o, m, s) ==
  [s EXCEPT !.out[o] = IF @ = NoMsg THEN [m EXCEPT !.new = "none"] ELSE [@ EXCEPT !.src = "off"]]

WakeupRelay(r, p, s) ==
  LET m == Arriving(r, p)
      a == AnswerWaiting(r, p, s)
  IN IF m = NoMsg \/ Boundary(r, Opp(p)) THEN s
     ELSE IF m.src = "off" THEN PassOff(Opp(p), m, a) ELSE a

Relays(r) ==
  LET s0 == [out |-> out[r], sent |-> ArmedAfter(r)] IN
  CASE power[r] \in Idle   -> s0
    [] power[r] = "off"    -> [s0 EXCEPT !.out = [p \in Port |-> Relayed(r, Opp(p))]]
    [] power[r] = "wakeup" ->
         WakeupRelay(r, 3, WakeupRelay(r, 2, WakeupRelay(r, 1, WakeupRelay(r, 0, s0))))

(* The assertions of the first pass on the handshake at port p, by the     *)
(* state of the router.  They are compiled in: one that fails stops the    *)
(* simulation, so they must hold whenever a handshake is read.             *)
AssertOn(r, p) ==
  LET m == Arriving(r, p)  d == down[r][p] IN
  /\ m.src = "on" => m.new = "on" /\ d \in {"draining", "wakeup"}
  /\ m.src = "on" /\ d = "wakeup" => p \in sent[r]
  /\ m.src = "draining" => m.new = "draining" /\ d = "on"
  /\ m.src = "wakeup" => d # "wakeup"
  /\ m.src = "off" => d = "draining" /\ p \in sent[r]

AssertDraining(r, p) ==
  LET m == Arriving(r, p)  d == down[r][p] IN
  /\ m.src = "on" => d = "draining"
  /\ m.src = "draining" => d = "on"
  /\ m.src = "wakeup" => d # "wakeup"
  /\ m.src # "off"
  /\ m.done => \/ d = "on" \/ m.new = "on"
               \/ m.src = "none" /\ m.new = "none"
  /\ Consents(r, p) => p \notin tags[r]

AssertOff(r, p) ==
  LET m == Arriving(r, p)  d == down[r][p] IN
  /\ m.src = "on" => d \in {"draining", "wakeup"}
  /\ m.src = "draining" => d = "on"
  /\ m.src = "wakeup" => d \notin {"wakeup", "draining"}
  /\ m.src = "off" => d \in {"draining", "wakeup"}

AssertWakeup(r, p) ==
  LET m == Arriving(r, p)  d == down[r][p] IN
  /\ m.src = "on" => d \in {"draining", "wakeup"}
  /\ m.src = "on" /\ d = "wakeup" =>
       Opp(p) \in tags[r] \cup {q \in Port : q < p /\ Consents(r, q)}
  /\ m.src = "draining" => ~m.done /\ d = "on"
  /\ m.src = "wakeup" => ~m.done /\ d # "wakeup"
  /\ m.src = "off" => d \in {"draining", "wakeup"}
  /\ m.done => m.new \in {"none", "on"}

HandshakeAsserts(r) ==
  \A p \in Port :
    CASE power[r] = "on"       -> AssertOn(r, p)
      [] power[r] = "draining" -> AssertDraining(r, p)
      [] power[r] = "off"      -> AssertOff(r, p)
      [] power[r] = "wakeup"   -> AssertWakeup(r, p)

ReadInputs ==
  /\ phase = "read"
  /\ phase' = "power"
  /\ \E busy \in SUBSET Busy : NodeCycle(busy)
  /\ down' = [r \in Router |-> [p \in Port |-> NewDown(r, p)]]
  /\ nbr' = [r \in Router |-> [p \in Port |->
               IF Arriving(r, p).new # "none" /\ Arriving(r, p).id = Nbr(r, p)
               THEN Arriving(r, p).src ELSE nbr[r][p]]]
  /\ logical' = [r \in Router |-> [p \in Port |-> NewLogical(r, p)]]
  /\ tags' = [r \in Router |-> TagsAfter(r)]
  /\ respHid' = [r \in Router |-> [p \in Port |-> RespHidAfter(r, p)]]
  /\ sent' = [r \in Router |-> Relays(r).sent]
  /\ out' = [r \in Router |-> Relays(r).out]
  /\ occupied' = occupied \cup {r \in Gateable : power[r] \in Idle /\ InQueue(r)}
  /\ UNCHANGED <<policy, turns, since, power, reqHid, drains, chans,
                 active, flitWire, flitAvail>>

-----------------------------------------------------------------------------
(* PowerStateEvaluate on every router. *)

MeshNbr(r, states)  == \E p \in MeshPorts(r) : nbr[r][p] \in states
DownIn(r, states)   == \E p \in Port : down[r][p] \in states
OutEmpty(r)         == \A p \in Port : out[r][p] = NoMsg

StartsDraining(r) ==
  /\ power[r] = "on"
  /\ r \in Gateable \ wake
  /\ drains[r] < MaxDrains
  /\ CASE policy[r] = "gflov"  -> ~DownIn(r, {"draining", "wakeup"})
       [] policy[r] = "rflov"  -> ~MeshNbr(r, {"draining", "wakeup", "off"})
       [] policy[r] = "noflov" -> FALSE

(* West and North neighbours have the higher priority to drain. *)
Yields(r) ==
  CASE policy[r] = "gflov"  -> \/ down[r][West] = "draining"
                               \/ down[r][North] = "draining"
                               \/ DownIn(r, {"wakeup"})
    [] policy[r] = "rflov"  -> \/ \E p \in {West, North} : ~Boundary(r, p) /\ nbr[r][p] = "draining"
                               \/ MeshNbr(r, {"wakeup", "off"})
    [] policy[r] = "noflov" -> TRUE

Cancels(r)   == power[r] = "draining" /\ (r \in wake \/ Yields(r))
Drained(r)   == tags[r] = Port /\ r \notin occupied
PowersOff(r) == power[r] = "draining" /\ ~Cancels(r) /\ Drained(r)
GivesUp(r)   == power[r] = "draining" /\ ~Cancels(r) /\ ~Drained(r)
                /\ timer[r] + 1 > DrainThreshold

(* Bug: a request to wake up is forgotten under R-FLOV. *)
Bug_WakeRequested(r) == policy[r] = "noflov"

WakeRequested(r) == policy[r] = "noflov" \/ (policy[r] = "rflov" /\ r \in wake)

(* Bug: a router wakes up next to one that drains or wakes up. *)
Bug_StartsWakeup(r) ==
  power[r] = "off" /\ WakeRequested(r) /\ timer[r] + 1 >= BetThreshold /\ OutEmpty(r)

StartsWakeup(r) ==
  /\ power[r] = "off"
  /\ WakeRequested(r)
  /\ timer[r] + 1 >= BetThreshold
  /\ ~DownIn(r, {"wakeup", "draining"})
  /\ OutEmpty(r)

WakeTags(r) ==
  tags[r] \cup IF policy[r] = "rflov" THEN {p \in Port : down[r][p] = "off"} ELSE {}

PowersOn(r) ==
  /\ power[r] = "wakeup"
  /\ WakeTags(r) = Port
  /\ ~InQueue(r)
  /\ timer[r] + 1 >= WakeupThreshold
  /\ OutEmpty(r)

NextPower(r) ==
  CASE StartsDraining(r)                        -> "draining"
    [] PowersOff(r)                             -> "off"
    [] Cancels(r) \/ GivesUp(r) \/ PowersOn(r)  -> "on"
    [] StartsWakeup(r)                          -> "wakeup"
    [] OTHER                                    -> power[r]

(* Bug: a router that goes off announces itself, not what is behind it. *)
Bug_Announcement(r, p) ==
  [new |-> NextPower(r), src |-> NextPower(r), done |-> FALSE, hid |-> reqHid[r][p] + 1,
   id |-> r, logical |-> IF PowersOn(r) THEN r ELSE NoRouter]

Announcement(r, p) ==
  [new     |-> IF NextPower(r) = "off" THEN down[r][Opp(p)] ELSE NextPower(r),
   src     |-> NextPower(r),
   done    |-> FALSE,
   hid     |-> reqHid[r][p] + 1,
   id      |-> r,
   logical |-> CASE NextPower(r) = "off" -> logical[r][Opp(p)]
                 [] PowersOn(r)          -> r
                 [] OTHER                -> NoRouter]

Announces(r, p) == NextPower(r) # power[r] /\ ~Boundary(r, p)

PowerStateEvaluate ==
  /\ phase = "power"
  /\ phase' = "eval"
  /\ power' = [r \in Router |-> NextPower(r)]
  /\ tags' = [r \in Router |->
               IF StartsDraining(r) \/ StartsWakeup(r)
               THEN BoundaryPorts(r) \cup {p \in Port : down[r][p] = "off"}
               ELSE IF NextPower(r) # power[r] THEN {}
               ELSE IF power[r] = "wakeup" THEN WakeTags(r)
               ELSE tags[r]]
  /\ timer' = [r \in Router |->
                IF NextPower(r) # power[r] \/ power[r] = "on" THEN 0
                ELSE IF \/ power[r] = "off" /\ (~WakeRequested(r) \/ timer[r] = BetThreshold)
                        \/ power[r] = "wakeup" /\ timer[r] = WakeupThreshold
                THEN timer[r]
                ELSE timer[r] + 1]
  /\ wake' = {r \in wake : /\ ~(power[r] = "on" \/ Cancels(r) \/ PowersOn(r))
                           /\ ~(StartsWakeup(r) /\ policy[r] = "noflov")}
  /\ drains' = [r \in Router |-> IF StartsDraining(r) THEN drains[r] + 1 ELSE drains[r]]
  /\ reqHid' = [r \in Router |-> [p \in Port |->
                 IF Announces(r, p) THEN reqHid[r][p] + 1 ELSE reqHid[r][p]]]
  /\ out' = [r \in Router |-> [p \in Port |->
              IF Announces(r, p) THEN Announcement(r, p) ELSE out[r][p]]]
  /\ UNCHANGED <<policy, turns, since, down, nbr, logical, sent, respHid, chans, packets>>

-----------------------------------------------------------------------------
(* Evaluate: the router pipeline and _HandshakeResponse, or _FlovStep.     *)

MayActivate(l) ==
  LET r == l[1]  p == l[2] IN
  /\ power[r] \in Idle
  /\ down[r][p] = "on"
  /\ r \in Gateable => r \in occupied

(* Bug: the answer does not wait for the packets on the link. *)
Bug_Responds(r, p, act) ==
  power[r] \in Idle /\ down[r][p] \in {"draining", "wakeup"} /\ p \notin sent[r]

Responds(r, p, act) ==
  /\ power[r] \in Idle
  /\ down[r][p] \in {"draining", "wakeup"}
  /\ p \notin sent[r]
  /\ <<r, p>> \notin act

Evaluate ==
  /\ phase = "eval"
  /\ phase' = "write"
  /\ \E act \in SUBSET Traffic :
       /\ \A l \in act \ active : MayActivate(l)
       /\ active' = act
       /\ \E occ \in SUBSET {r \in Gateable : \E l \in Traffic : Nbr(l[1], l[2]) = r \/ l[1] = r} :
            /\ {l[1] : l \in act} \cap Gateable \subseteq occ
            /\ occ \subseteq occupied \cup {r \in Busy : power[r] \in Idle}
            /\ occupied' = occ
       /\ out' = [r \in Router |-> [p \in Port |->
                   IF Responds(r, p, act)
                   THEN [out[r][p] EXCEPT !.done = TRUE, !.hid = respHid[r][p], !.id = r]
                   ELSE out[r][p]]]
       /\ sent' = [r \in Router |-> sent[r] \cup {p \in Port : Responds(r, p, act)}]
  /\ UNCHANGED <<voting, power, down, nbr, logical, tags, reqHid, respHid, timer, wake,
                 drains, chans, flitWire, flitAvail>>

-----------------------------------------------------------------------------
(* WriteOutputs: handshakes and flits enter the channels, and the channels *)
(* move on by one cycle.                                                   *)

FliesOver ==
  {<<Nbr(l[1], l[2]), l[2]>> : l \in {m \in flitAvail : power[Nbr(m[1], m[2])] \in Bypassed}}

WriteOutputs ==
  /\ phase = "write"
  /\ phase' = "read"
  /\ wire' = out
  /\ avail' = wire
  /\ out' = [r \in Router |-> [p \in Port |-> NoMsg]]
  /\ flitAvail' = flitWire
  /\ \E snd \in SUBSET active : flitWire' = snd \cup FliesOver
  /\ since' = IF since = MinEpoch THEN since ELSE since + 1
  /\ UNCHANGED <<policy, turns, ctrl, active, occupied>>

Next ==
  \/ PolicyTurn
  \/ ReadInputs
  \/ PowerStateEvaluate
  \/ Evaluate
  \/ WriteOutputs

Spec == Init /\ [][Next]_vars

-----------------------------------------------------------------------------
(* Properties.                                                             *)

(* The values the variables may take; the timers stop at their thresholds. *)
TypeOK ==
  /\ phase \in {"read", "power", "eval", "write"}
  /\ policy \in [Router -> Policy]
  /\ power \in [Router -> PowerState]
  /\ down \in [Router -> [Port -> PowerState]]
  /\ nbr \in [Router -> [Port -> PowerState]]
  /\ logical \in [Router -> [Port -> Router \cup {NoRouter}]]
  /\ tags \in [Router -> SUBSET Port]
  /\ sent \in [Router -> SUBSET Port]
  /\ reqHid \in [Router -> [Port -> Nat]]
  /\ respHid \in [Router -> [Port -> Nat]]
  /\ timer \in [Router -> Nat]
  /\ wake \subseteq Router
  /\ \A r \in Router : \A p \in Port : {out[r][p], wire[r][p], avail[r][p]} \subseteq Message
  /\ active \subseteq Traffic
  /\ occupied \subseteq Gateable
  /\ flitWire \cup flitAvail \subseteq Router \X Port

(* No assertion of _HandshakeEvaluate fails: handshakes arrive in an order *)
(* in which each of them is expected, whatever was relayed on the way.  It *)
(* holds as long as no answer finds a router waking up on its way: routers *)
(* count their hids apart, and an answer to another router's drain may     *)
(* carry the hid that the waking one waits for.                            *)
HandshakesExpected == phase = "read" => \A r \in Router : HandshakeAsserts(r)

-----------------------------------------------------------------------------
(* The routers of the mesh beyond r in direction p, and the downstream     *)
(* router: the nearest of them that is not off.                            *)

Ahead(r, p) ==
  {q \in Router :
     CASE p = East  -> Row(q) = Row(r) /\ Col(q) > Col(r)
       [] p = West  -> Row(q) = Row(r) /\ Col(q) < Col(r)
       [] p = South -> Col(q) = Col(r) /\ Row(q) > Row(r)
       [] p = North -> Col(q) = Col(r) /\ Row(q) < Row(r)}

Downstream(r, p) == {q \in Ahead(r, p) : /\ power[q] # "off"
                                         /\ \A s \in Ahead(r, p) : q \in Ahead(s, p) => power[s] = "off"}

(* The stretch of channels from the downstream router to r. *)
Stretch(r, p) == {q \in Ahead(r, p) : \A s \in Downstream(r, p) : q \notin Ahead(s, p)}

Informing(r, p) ==
  \E q \in Stretch(r, p) : wire[q][Opp(p)].new # "none" \/ avail[q][Opp(p)].new # "none"

(* Through any number of routers that are off, a router knows the state    *)
(* of its downstream router and which router that is, except while an      *)
(* announcement is travelling between the two.                             *)
DownIsCurrent ==
  phase = "read" => \A r \in Router : \A p \in Port :
    \/ Informing(r, p)
    \/ Downstream(r, p) = {} /\ down[r][p] = "off"
    \/ \E q \in Downstream(r, p) : down[r][p] = power[q]

LogicalIsCurrent ==
  phase = "read" => \A r \in Router : \A p \in Port :
    \/ Informing(r, p)
    \/ \A q \in Downstream(r, p) : power[q] \in Idle => logical[r][p] = q

(* The nearest router with a working pipeline: the one whose packets fly   *)
(* over the routers in between and reach r.                                *)
Sender(r, p) == {q \in Ahead(r, p) : /\ power[q] \in Idle
                                     /\ \A s \in Ahead(r, p) : q \in Ahead(s, p) => power[s] \in Bypassed}

(* A router goes off only in a cycle in which its downstream routers are   *)
(* on and stay on, know that it drains, and have answered this drain,      *)
(* however many routers that are off relayed the answer.  (A downstream    *)
(* router that started to wake up a moment ago has no say: it was off.)    *)
OffByConsent ==
  [][\A r \in Router : power'[r] = "off" /\ power[r] # "off" =>
       \A p \in Port : \A n \in Downstream(r, p) :
         power[n] # "wakeup" =>
           /\ power'[n] = "on"
           /\ down[n][Opp(p)] = "draining"
           /\ Opp(p) \in sent[n]]_vars

(* A router switches its pipeline off or on only in silence: the routers   *)
(* whose packets reach it have none under way to it, in their pipelines or *)
(* on any channel on the way.                                              *)
SwitchesInSilence ==
  [][\A r \in Router :
       power'[r] # power[r] /\ (power'[r] = "off" \/ power[r] = "wakeup") =>
         \A p \in Port : \A n \in Sender(r, p) :
           /\ <<n, Opp(p)>> \notin active
           /\ \A q \in {n} \cup (Ahead(r, p) \cap Ahead(n, Opp(p))) :
                <<q, Opp(p)>> \notin flitWire \cup flitAvail]_vars

(* _FlovStep asserts that no flit comes in while _off_timer is 1.  That is *)
(* the first cycle off of a router whose node is idle, when packets sent   *)
(* before the drain must be gone and none may have been sent since; the    *)
(* idle cycles carry the timer past 1 before packets fly over the router.  *)
BypassStartsEmpty ==
  phase = "eval" => \A r \in Router : power[r] = "off" /\ timer[r] = 1 => ~InQueue(r)

(* Once packets cease, a router that is held under the No-FLOV policy      *)
(* comes back on for good, also when its neighbours and the routers        *)
(* between them wake up or go off at the same time: none waits for an      *)
(* answer that nobody sends.                                               *)
NoFlovComesOn ==
  <>[](active = {}) =>
    \A r \in Gateable : <>[](policy[r] = "noflov") => <>[](power[r] = "on")

(* Once packets cease, two neighbours held under the R-FLOV policy do not  *)
(* both stay off, even if they went off together under G-FLOV.             *)
RflovSeparates ==
  <>[](active = {}) =>
    \A r \in Gateable : \A p \in MeshPorts(r) :
      <>[](policy[r] = "rflov" /\ policy[Nbr(r, p)] = "rflov")
        => <>[]~(power[r] = "off" /\ power[Nbr(r, p)] = "off")

(* The phases of a cycle run for as long as the simulation lasts.          *)
Fairness ==
  /\ WF_vars(ReadInputs)
  /\ WF_vars(PowerStateEvaluate)
  /\ WF_vars(Evaluate)
  /\ WF_vars(WriteOutputs)

FairSpec == Spec /\ Fairness
=============================================================================
