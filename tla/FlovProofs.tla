----------------------------- MODULE FlovProofs -----------------------------
(***************************************************************************)
(* Proofs about what FLOVRouters know of each other, for every K, every    *)
(* set of gateable routers, all votes, wake-up signals and thresholds.     *)
(*                                                                         *)
(* The inductive invariant speaks of a router r, one of its mesh ports p   *)
(* and the neighbour n = Nbr(r, p) behind it, which r hears from by n's    *)
(* port Opp(p).  KInv needs no consent: what a router believes is right as *)
(* soon as all that travels has been read, whoever goes off when.          *)
(*                                                                         *)
(* ConsentInv adds what the answers to a drain are worth.  It speaks of a  *)
(* router u that is not off and of all that is on the stretch of channels  *)
(* and off routers between u and the router downstream, in its order, and  *)
(* it holds until the first router wakes up.                               *)
(***************************************************************************)
EXTENDS Flov, WellFoundedInduction, TLAPS

(* What a router believes of a direction: the state of its downstream      *)
(* router, and which one that is.                                          *)
Known(r, p) == [down |-> down[r][p], logical |-> logical[r][p]]

(* What is believed once m has been read. *)
After(m, k) ==
  LET d == IF m.new # "none" THEN m.new ELSE k.down IN
  [down    |-> d,
   logical |-> IF m.logical # NoRouter THEN m.logical
               ELSE IF m # NoMsg /\ d = "off" THEN NoRouter ELSE k.logical]

(* The handshakes on the way from n to r, in the order in which r will     *)
(* read them, and what r will believe after each.                          *)
Arrived(r, p) == IF phase = "read" THEN Arriving(r, p) ELSE NoMsg
Coming(r, p)  == wire[Nbr(r, p)][Opp(p)]
Queued(r, p)  == out[Nbr(r, p)][Opp(p)]
Known1(r, p)  == After(Arrived(r, p), Known(r, p))
Known2(r, p)  == After(Coming(r, p), Known1(r, p))
Known3(r, p)  == After(Queued(r, p), Known2(r, p))

(* What there is to know behind port p of a neighbour of n. *)
Shown(n, p) == IF power[n] = "off" THEN Known(n, p) ELSE [down |-> power[n], logical |-> n]

(* Which router it is matters as long as its pipeline works. *)
Agree(k, s) == k.down = s.down /\ (s.down \in Idle => k.logical = s.logical)

(* A handshake that does not name the downstream router speaks of the one  *)
(* already known, and one that does not tell its state names a router only *)
(* behind one that wakes up.                                               *)
Fits(m, k) ==
  /\ m.new \in Idle /\ m.logical = NoRouter => k.down \in Idle
  /\ m.new = "none" /\ m.logical # NoRouter => k.down \notin Idle

(* Whoever has a working pipeline is known by name. *)
Named(k) == k.down \in Idle => k.logical # NoRouter

LinkInv(r, p) ==
  /\ Fits(Arrived(r, p), Known(r, p))
  /\ Fits(Coming(r, p), Known1(r, p))
  /\ Fits(Queued(r, p), Known2(r, p))
  /\ Agree(Known3(r, p), Shown(Nbr(r, p), p))

(* Nothing crosses the edge of the mesh. *)
Edge(r, p) ==
  /\ down[r][p] = "off"
  /\ out[r][p] = NoMsg /\ wire[r][p] = NoMsg /\ avail[r][p] = NoMsg

(* Who tells a state, its own or another one's, tells what became of him. *)
Signed == {m \in Message : m.new # "none" => m.src # "none"}

Shape ==
  /\ \A m \in {out, wire, avail} : m \in [Router -> [Port -> Signed]]
  /\ phase = "read" => \A r \in Router : \A p \in Port : out[r][p] = NoMsg
  /\ phase = "power" =>
       \A r \in Router : power[r] \in Idle => \A p \in Port : out[r][p] = NoMsg

KInv ==
  /\ TypeOK
  /\ Shape
  /\ \A r \in Router : \A p \in Port : Named(Known(r, p))
  /\ \A r \in Router : \A p \in BoundaryPorts(r) : Edge(r, p)
  /\ \A r \in Router : \A p \in MeshPorts(r) : LinkInv(r, p)

-----------------------------------------------------------------------------
(* The mesh. *)

LEMMA MeshLink ==
  ASSUME NEW r \in Router, NEW p \in MeshPorts(r)
  PROVE  /\ p \in Port /\ Nbr(r, p) \in Router /\ Nbr(r, p) # r
         /\ Opp(p) \in MeshPorts(Nbr(r, p)) /\ Opp(p) \in Port /\ Opp(Opp(p)) = p
<1> USE KAssumption DEF Router, Coord, MeshPorts, Port, Boundary, Nbr, Opp, Succ, Pred
<1>0. PICK i \in Coord, j \in Coord : r = <<i, j>>
  OBVIOUS
<1>1. p \in 0 .. 3 /\ ~Boundary(r, p)
  OBVIOUS
<1>2. CASE p = 0
  BY <1>0, <1>1, <1>2
<1>3. CASE p = 1
  BY <1>0, <1>1, <1>3
<1>4. CASE p = 2
  BY <1>0, <1>1, <1>4
<1>5. CASE p = 3
  BY <1>0, <1>1, <1>5
<1> QED
  BY <1>1, <1>2, <1>3, <1>4, <1>5

(* A channel that wraps around does so at both its ends. *)
LEMMA AnyLink ==
  ASSUME NEW r \in Router, NEW p \in Port
  PROVE  /\ Nbr(r, p) \in Router /\ Opp(p) \in Port /\ Opp(Opp(p)) = p
         /\ Boundary(r, p) => Boundary(Nbr(r, p), Opp(p))
<1> USE KAssumption DEF Router, Coord, Port, Boundary, Nbr, Opp, Succ, Pred
<1>0. PICK i \in Coord, j \in Coord : r = <<i, j>>
  OBVIOUS
<1>1. p = 0 \/ p = 1 \/ p = 2 \/ p = 3
  OBVIOUS
<1> QED
  BY <1>0, <1>1

LEMMA PortType ==
  ASSUME NEW r \in Router
  PROVE  /\ MeshPorts(r) \subseteq Port /\ BoundaryPorts(r) \subseteq Port
         /\ \A p \in Port : (Boundary(r, p) <=> p \in BoundaryPorts(r))
         /\ \A p \in Port : (p \in MeshPorts(r) <=> ~Boundary(r, p))
  BY DEF MeshPorts, BoundaryPorts

-----------------------------------------------------------------------------
(* Type correctness.                                                       *)

LEMMA MessageType ==
  /\ NoMsg \in Message
  /\ NoMsg.new = "none" /\ NoMsg.src = "none" /\ NoMsg.logical = NoRouter
  /\ \A m \in Message : /\ m.new \in PowerState \cup {"none"} /\ m.src \in PowerState \cup {"none"}
                        /\ m.done \in BOOLEAN /\ m.hid \in Nat
                        /\ m.id \in Router \cup {NoRouter} /\ m.logical \in Router \cup {NoRouter}
  /\ NoMsg \in Signed /\ Signed \subseteq Message
  /\ \A m \in Message : m.new = "none" => m \in Signed
  BY DEF NoMsg, Message, Signed

(* What a router reads. *)
LEMMA ArrivingType ==
  ASSUME TypeOK, Shape, \A r \in Router : \A p \in BoundaryPorts(r) : Edge(r, p),
         NEW r \in Router, NEW p \in Port
  PROVE  /\ Arriving(r, p) \in Signed /\ Arriving(r, p) \in Message
         /\ Boundary(r, p) => Arriving(r, p) = NoMsg
         /\ NewDown(r, p) \in PowerState /\ NewLogical(r, p) \in Router \cup {NoRouter}
         /\ RespHidAfter(r, p) \in Nat
<1>1. Nbr(r, p) \in Router /\ Opp(p) \in Port /\ (Boundary(r, p) => Boundary(Nbr(r, p), Opp(p)))
  BY AnyLink
<1>2. Arriving(r, p) \in Signed /\ Arriving(r, p) \in Message
  BY <1>1, MessageType DEF Arriving, Shape
<1>3. Boundary(r, p) => Arriving(r, p) = NoMsg
  BY <1>1, PortType DEF Arriving, Edge
<1>4. down[r][p] \in PowerState /\ logical[r][p] \in Router \cup {NoRouter} /\ respHid[r][p] \in Nat
  BY DEF TypeOK
<1>5. NewDown(r, p) \in PowerState
  BY <1>2, <1>4, MessageType DEF NewDown
<1>6. NewLogical(r, p) \in Router \cup {NoRouter}
  BY <1>2, <1>4, MessageType DEF NewLogical
<1>7. RespHidAfter(r, p) \in Nat
  BY <1>2, <1>4, MessageType DEF RespHidAfter
<1> QED
  BY <1>2, <1>3, <1>5, <1>6, <1>7

(* What a router that wakes up sends while it reads tells no state, and    *)
(* leaves no port at the edge.                                             *)
Muted(r, s) ==
  /\ s = [out |-> s.out, sent |-> s.sent]
  /\ s.out \in [Port -> Message] /\ s.sent \subseteq Port
  /\ \A p \in Port : s.out[p].new = "none"
  /\ \A p \in BoundaryPorts(r) : s.out[p] = NoMsg

LEMMA SetMuted ==
  ASSUME NEW r \in Router, NEW s, Muted(r, s), NEW p \in MeshPorts(r),
         NEW m \in Message, m.new = "none", NEW t, t \subseteq Port,
         NEW u, u = [out |-> [s.out EXCEPT ![p] = m], sent |-> t]
  PROVE  Muted(r, u)
<1>1. p \in Port /\ p \notin BoundaryPorts(r) /\ BoundaryPorts(r) \subseteq Port
  BY PortType
<1>2. s.out \in [Port -> Message] /\ \A i \in Port : s.out[i].new = "none"
  BY DEF Muted
<1>3. u.out = [s.out EXCEPT ![p] = m] /\ u.sent = t /\ u = [out |-> u.out, sent |-> u.sent]
  OBVIOUS
<1>4. u.out \in [Port -> Message]
  BY <1>2, <1>3
<1>5. \A i \in Port : u.out[i] = IF i = p THEN m ELSE s.out[i]
  BY <1>1, <1>2, <1>3
<1>6. \A i \in Port : u.out[i].new = "none"
  BY <1>2, <1>5
<1>7. \A i \in BoundaryPorts(r) : u.out[i] = NoMsg
  BY <1>1, <1>5 DEF Muted
<1> QED
  BY <1>3, <1>4, <1>6, <1>7 DEF Muted

LEMMA AnswerMuted ==
  ASSUME NEW r \in Router, NEW s, Muted(r, s), NEW p \in MeshPorts(r), RespHidAfter(r, p) \in Nat
  PROVE  Muted(r, Answer(r, p, s))
<1> DEFINE b == IF s.out[p] = NoMsg THEN [NoMsg EXCEPT !.id = r] ELSE s.out[p]
           m == [b EXCEPT !.done = TRUE, !.hid = RespHidAfter(r, p)]
<1>1. p \in Port
  BY PortType
<1>2. s.out[p] \in Message /\ s.out[p].new = "none" /\ s.out \in [Port -> Message] /\ s.sent \subseteq Port
  BY <1>1 DEF Muted
<1>3. [NoMsg EXCEPT !.id = r] \in Message /\ [NoMsg EXCEPT !.id = r].new = "none"
  BY DEF NoMsg, Message
<1>4. b \in Message /\ b.new = "none"
  BY <1>2, <1>3
<1>5. m \in Message /\ m.new = "none"
  <2> HIDE DEF b
  <2> QED
    BY <1>4 DEF Message
<1>6. Answer(r, p, s) = [out |-> [s.out EXCEPT ![p] = m], sent |-> s.sent \cup {p}]
  BY <1>1, <1>2 DEF Answer
<1> HIDE DEF m
<1> QED
  BY <1>1, <1>2, <1>5, <1>6, SetMuted

LEMMA AnswerWaitingMuted ==
  ASSUME NEW r \in Router, NEW p \in MeshPorts(r), Opp(p) \in MeshPorts(r), NEW s, Muted(r, s),
         RespHidAfter(r, p) \in Nat, RespHidAfter(r, Opp(p)) \in Nat
  PROVE  Muted(r, AnswerWaiting(r, p, s))
<1>1. Muted(r, Answer(r, p, s)) /\ Muted(r, Answer(r, Opp(p), s))
  BY AnswerMuted
<1>2. AnswerWaiting(r, p, s) \in {Answer(r, p, s), Answer(r, Opp(p), s), s}
  BY Zenon DEF AnswerWaiting
<1> QED
  BY <1>1, <1>2

LEMMA PassOffMuted ==
  ASSUME NEW r \in Router, NEW o \in MeshPorts(r), NEW s, Muted(r, s), NEW m \in Message
  PROVE  Muted(r, PassOff(o, m, s))
<1> DEFINE b == [m EXCEPT !.new = "none"]
           e == [s.out[o] EXCEPT !.src = "off"]
           x == IF s.out[o] = NoMsg THEN b ELSE e
<1>1. o \in Port
  BY PortType
<1>2. /\ s.out \in [Port -> Message] /\ s.sent \subseteq Port /\ s = [out |-> s.out, sent |-> s.sent]
      /\ s.out[o] \in Message /\ s.out[o].new = "none"
  BY <1>1 DEF Muted
<1>3. b \in Message /\ b.new = "none"
  BY DEF Message
<1>4. e \in Message /\ e.new = "none"
  BY <1>2 DEF Message, PowerState
<1>5. PassOff(o, m, s) = [out |-> [s.out EXCEPT ![o] = x], sent |-> s.sent]
  BY <1>1, <1>2 DEF PassOff
<1>6. x \in Message /\ x.new = "none"
  <2> HIDE DEF b, e
  <2> QED
    BY <1>3, <1>4
<1> HIDE DEF x
<1> QED
  BY <1>2, <1>5, <1>6, SetMuted

LEMMA WakeupRelayMuted ==
  ASSUME NEW r \in Router, NEW p \in Port, NEW s, Muted(r, s),
         \A i \in Port : RespHidAfter(r, i) \in Nat,
         Arriving(r, p) \in Message, Boundary(r, p) => Arriving(r, p) = NoMsg
  PROVE  Muted(r, WakeupRelay(r, p, s))
<1>1. CASE Arriving(r, p) = NoMsg \/ Boundary(r, Opp(p))
  BY <1>1 DEF WakeupRelay
<1>2. CASE ~(Arriving(r, p) = NoMsg \/ Boundary(r, Opp(p)))
  <2>1. Opp(p) \in MeshPorts(r) /\ p \in MeshPorts(r) /\ Opp(p) \in Port
    BY <1>2, AnyLink, PortType
  <2>2. Muted(r, AnswerWaiting(r, p, s))
    BY <2>1, AnswerWaitingMuted
  <2>3. Muted(r, PassOff(Opp(p), Arriving(r, p), AnswerWaiting(r, p, s)))
    BY <2>1, <2>2, PassOffMuted
  <2> QED
    BY <1>2, <2>2, <2>3 DEF WakeupRelay
<1> QED
  BY <1>1, <1>2

LEMMA RelayedType ==
  ASSUME NEW r \in Router, NEW p \in Port, Arriving(r, p) \in Signed
  PROVE  /\ Relayed(r, p) \in Signed
         /\ Boundary(r, Opp(p)) => Relayed(r, p) = NoMsg
         /\ ~Boundary(r, Opp(p)) /\ Relayed(r, p) = NoMsg => Arriving(r, p).new = "none"
         /\ \/ Relayed(r, p) = NoMsg
            \/ /\ Relayed(r, p).new = Arriving(r, p).new
               /\ Relayed(r, p).logical = Arriving(r, p).logical
<1> DEFINE m == Arriving(r, p)
           d == m.done /\ NewDown(r, Opp(p)) \in {"draining", "wakeup"}
           e == [m EXCEPT !.done = d]
<1>1. Relayed(r, p) = IF Boundary(r, Opp(p)) \/ (m.new = "none" /\ m.src = "none" /\ ~d)
                      THEN NoMsg ELSE e
  BY DEF Relayed
<1>2. m.done \in BOOLEAN /\ m \in Message
  BY MessageType
<1>3. d \in BOOLEAN
  BY <1>2
<1> HIDE DEF d
<1>4. e \in Message /\ e.new = m.new /\ e.logical = m.logical /\ e.src = m.src
  BY <1>2, <1>3 DEF Message
<1>5. e = NoMsg => m.new = "none"
  BY <1>4, MessageType
<1>6. e \in Signed
  BY <1>4 DEF Signed
<1> HIDE DEF e
<1> QED
  BY <1>1, <1>4, <1>5, <1>6, MessageType

(* What the two passes of ReadInputs put on the output queues. *)
LEMMA RelaysType ==
  ASSUME TypeOK, Shape, \A r \in Router : \A p \in BoundaryPorts(r) : Edge(r, p),
         phase = "read", NEW r \in Router
  PROVE  /\ Relays(r).out \in [Port -> Signed] /\ Relays(r).sent \subseteq Port
         /\ \A p \in BoundaryPorts(r) : Relays(r).out[p] = NoMsg
         /\ power[r] \in Idle => \A p \in Port : Relays(r).out[p] = NoMsg
         /\ power[r] = "off" => \A p \in Port : Relays(r).out[p] = Relayed(r, Opp(p))
         /\ power[r] = "wakeup" => \A p \in Port : Relays(r).out[p].new = "none"
<1> DEFINE s0 == [out |-> out[r], sent |-> ArmedAfter(r)]
           s1 == WakeupRelay(r, 0, s0)
           s2 == WakeupRelay(r, 1, s1)
           s3 == WakeupRelay(r, 2, s2)
           s4 == WakeupRelay(r, 3, s3)
           t0 == [s0 EXCEPT !.out = [p \in Port |-> Relayed(r, Opp(p))]]
<1>1. out[r] \in [Port -> Signed] /\ out[r] \in [Port -> Message] /\ (\A p \in Port : out[r][p] = NoMsg) /\ ArmedAfter(r) \subseteq Port
      /\ BoundaryPorts(r) \subseteq Port /\ power[r] \in PowerState
  BY PortType, MessageType DEF Shape, TypeOK, ArmedAfter
<1>2. \A p \in Port : /\ Arriving(r, p) \in Signed /\ Arriving(r, p) \in Message /\ RespHidAfter(r, p) \in Nat
                      /\ Boundary(r, p) => Arriving(r, p) = NoMsg
  BY ArrivingType
<1>3. Muted(r, s0)
  <2>1. s0.out = out[r] /\ s0.sent = ArmedAfter(r)
    OBVIOUS
  <2> QED
    BY <1>1, <2>1, MessageType DEF Muted
<1>0. Relays(r) = CASE power[r] \in Idle -> s0 [] power[r] = "off" -> t0
                    [] power[r] = "wakeup" -> s4
  BY DEF Relays
<1> HIDE DEF s4, t0
<1>4. CASE power[r] \in Idle
  <2>1. Relays(r) = s0
    BY <1>0, <1>4 DEF Idle
  <2> QED
    BY <1>1, <1>4, <2>1 DEF Idle
<1>5. CASE power[r] = "off"
  <2>1. Relays(r) = [out |-> [p \in Port |-> Relayed(r, Opp(p))], sent |-> ArmedAfter(r)]
    BY <1>0, <1>5 DEF Idle, t0
  <2>2. \A p \in Port : Opp(p) \in Port /\ Opp(Opp(p)) = p
    BY AnyLink
  <2>3. \A p \in Port : Relayed(r, Opp(p)) \in Signed
    BY <1>2, <2>2, RelayedType
  <2>4. \A p \in BoundaryPorts(r) : Relayed(r, Opp(p)) = NoMsg
    <3> SUFFICES ASSUME NEW p \in BoundaryPorts(r) PROVE Relayed(r, Opp(p)) = NoMsg
      OBVIOUS
    <3>1. p \in Port /\ Boundary(r, p)
      BY PortType
    <3>2. Boundary(r, Opp(Opp(p)))
      BY <2>2, <3>1
    <3> QED
      BY <1>2, <2>2, <3>1, <3>2, RelayedType
  <2> QED
    BY <1>1, <1>5, <2>1, <2>3, <2>4 DEF Idle
<1>6. CASE power[r] = "wakeup"
  <2>1. Relays(r) = s4
    BY <1>0, <1>6 DEF Idle
  <2> HIDE DEF s0
  <2>2. 0 \in Port /\ 1 \in Port /\ 2 \in Port /\ 3 \in Port
    BY DEF Port
  <2>3. Muted(r, s1)
    BY <1>2, <1>3, <2>2, WakeupRelayMuted
  <2> HIDE DEF s1
  <2>4. Muted(r, s2)
    BY <1>2, <2>2, <2>3, WakeupRelayMuted
  <2> HIDE DEF s2
  <2>5. Muted(r, s3)
    BY <1>2, <2>2, <2>4, WakeupRelayMuted
  <2> HIDE DEF s3
  <2>6. Muted(r, s4)
    BY <1>2, <2>2, <2>5, WakeupRelayMuted DEF s4
  <2>7. s4.out \in [Port -> Signed]
    BY <2>6, MessageType DEF Muted
  <2> QED
    BY <1>6, <2>1, <2>6, <2>7 DEF Muted, Idle
<1> QED
  BY <1>1, <1>4, <1>5, <1>6 DEF PowerState, Idle

LEMMA InitTypeOK == Init => TypeOK /\ Shape
<1> SUFFICES ASSUME Init PROVE TypeOK /\ Shape
  OBVIOUS
<1>1. \A m \in {out, wire, avail} : m \in [Router -> [Port -> Signed]]
  BY MessageType DEF Init
<1>2. \A r \in Router : \A p \in Port : Nbr(r, p) \in Router
  BY AnyLink
<1>3. logical \in [Router -> [Port -> Router \cup {NoRouter}]]
  BY <1>2 DEF Init
<1>4. down \in [Router -> [Port -> PowerState]] /\ nbr = down
  BY DEF Init, PowerState
<1>5. /\ policy \in [Router -> Policy] /\ power \in [Router -> PowerState]
      /\ tags \in [Router -> SUBSET Port] /\ sent \in [Router -> SUBSET Port]
  BY DEF Init, PowerState, Policy
<1>6. /\ reqHid \in [Router -> [Port -> Nat]] /\ respHid \in [Router -> [Port -> Nat]]
      /\ timer \in [Router -> Nat]
  BY DEF Init
<1>7. \A r \in Router : \A p \in Port : {out[r][p], wire[r][p], avail[r][p]} \subseteq Message
  BY <1>1, MessageType
<1>8. Shape
  BY <1>1 DEF Init, Shape
<1> QED
  BY <1>3, <1>4, <1>5, <1>6, <1>7, <1>8 DEF Init, TypeOK

LEMMA NextPowerType ==
  ASSUME NEW r \in Router, power[r] \in PowerState
  PROVE  /\ NextPower(r) \in PowerState
         /\ power[r] = "on" => NextPower(r) \in {"on", "draining"}
         /\ power[r] = "draining" => NextPower(r) \in {"on", "draining", "off"}
         /\ power[r] = "off" => NextPower(r) = "off" \/ (NextPower(r) = "wakeup" /\ OutEmpty(r))
         /\ power[r] = "wakeup" => NextPower(r) = "wakeup" \/ (NextPower(r) = "on" /\ PowersOn(r) /\ OutEmpty(r))
         /\ PowersOn(r) => power[r] = "wakeup"
<1>1. /\ StartsDraining(r) => power[r] = "on"
      /\ PowersOff(r) \/ Cancels(r) \/ GivesUp(r) => power[r] = "draining"
      /\ PowersOn(r) => power[r] = "wakeup" /\ OutEmpty(r)
      /\ StartsWakeup(r) => power[r] = "off" /\ OutEmpty(r)
      /\ PowersOff(r) => ~Cancels(r) /\ ~GivesUp(r)
  BY DEF StartsDraining, PowersOff, Cancels, GivesUp, PowersOn, StartsWakeup
<1>2. NextPower(r) = IF StartsDraining(r) THEN "draining"
                     ELSE IF PowersOff(r) THEN "off"
                     ELSE IF Cancels(r) \/ GivesUp(r) \/ PowersOn(r) THEN "on"
                     ELSE IF StartsWakeup(r) THEN "wakeup" ELSE power[r]
  BY <1>1 DEF NextPower
<1> QED
  BY <1>1, <1>2 DEF PowerState

(* What a router announces. *)
LEMMA AnnouncementType ==
  ASSUME TypeOK, NEW r \in Router, NEW p \in Port
  PROVE  /\ Announcement(r, p) \in Signed /\ Announcement(r, p) # NoMsg
         /\ NextPower(r) = "off" => /\ Announcement(r, p).new = down[r][Opp(p)]
                                    /\ Announcement(r, p).logical = logical[r][Opp(p)]
         /\ NextPower(r) # "off" =>
              /\ Announcement(r, p).new = NextPower(r)
              /\ Announcement(r, p).logical = IF PowersOn(r) THEN r ELSE NoRouter
<1> DEFINE m == Announcement(r, p)
           new == IF NextPower(r) = "off" THEN down[r][Opp(p)] ELSE NextPower(r)
           lgc == IF NextPower(r) = "off" THEN logical[r][Opp(p)]
                  ELSE IF PowersOn(r) THEN r ELSE NoRouter
<1>1. Opp(p) \in Port
  BY AnyLink
<1>2. /\ down[r][Opp(p)] \in PowerState /\ logical[r][Opp(p)] \in Router \cup {NoRouter}
      /\ NextPower(r) \in PowerState /\ reqHid[r][p] \in Nat
  BY <1>1, NextPowerType DEF TypeOK
<1>3. NextPower(r) = "off" => ~PowersOn(r)
  BY <1>2, NextPowerType DEF TypeOK, PowerState
<1>4. m = [new |-> new, src |-> NextPower(r), done |-> FALSE, hid |-> reqHid[r][p] + 1,
           id |-> r, logical |-> lgc]
  BY <1>3 DEF Announcement
<1>5. new \in PowerState /\ lgc \in Router \cup {NoRouter}
  BY <1>2
<1> HIDE DEF new, lgc
<1>6. m \in Message
  BY <1>2, <1>4, <1>5 DEF Message
<1>7. m.src # "none" /\ m \in Signed
  BY <1>2, <1>4, <1>6 DEF PowerState, Signed
<1>8. m.new = new /\ m.logical = lgc
  BY <1>4
<1> HIDE DEF m
<1> QED
  BY <1>7, <1>8, MessageType DEF new, lgc, m

LEMMA ReadTypes ==
  ASSUME TypeOK, Shape, \A r \in Router : \A p \in BoundaryPorts(r) : Edge(r, p), ReadInputs
  PROVE  TypeOK' /\ Shape'
<1>0. phase = "read" /\ phase' = "power"
  BY DEF ReadInputs
<1>1. \A r \in Router : \A p \in Port :
        /\ Arriving(r, p) \in Signed /\ Arriving(r, p) \in Message /\ NewDown(r, p) \in PowerState
        /\ NewLogical(r, p) \in Router \cup {NoRouter} /\ RespHidAfter(r, p) \in Nat
  BY ArrivingType
<1>2. down' \in [Router -> [Port -> PowerState]]
  BY <1>1 DEF ReadInputs
<1>3. nbr' \in [Router -> [Port -> PowerState]]
  <2> DEFINE seen(r, p) == IF Arriving(r, p).new # "none" /\ Arriving(r, p).id = Nbr(r, p)
                           THEN Arriving(r, p).src ELSE nbr[r][p]
  <2>1. nbr' = [r \in Router |-> [p \in Port |-> seen(r, p)]]
    BY DEF ReadInputs
  <2>2. ASSUME NEW r \in Router, NEW p \in Port PROVE seen(r, p) \in PowerState
    <3>1. nbr[r][p] \in PowerState
      BY DEF TypeOK
    <3>2. Arriving(r, p).new # "none" => Arriving(r, p).src \in PowerState
      BY <1>1, MessageType DEF Signed
    <3> QED
      BY <3>1, <3>2
  <2> HIDE DEF seen
  <2> QED
    BY <2>1, <2>2
<1>4. logical' \in [Router -> [Port -> Router \cup {NoRouter}]]
  BY <1>1 DEF ReadInputs
<1>5. tags' \in [Router -> SUBSET Port]
  BY DEF ReadInputs, TypeOK, TagsAfter
<1>6. respHid' \in [Router -> [Port -> Nat]]
  BY <1>1 DEF ReadInputs
<1>7. sent' \in [Router -> SUBSET Port] /\ out' \in [Router -> [Port -> Signed]]
  BY <1>0, RelaysType DEF ReadInputs
<1>8. occupied' \subseteq Gateable
  BY DEF ReadInputs, TypeOK
<1>9. /\ UNCHANGED <<policy, power, reqHid, wire, avail, active, flitWire, flitAvail>>
  BY DEF ReadInputs, chans
<1>10. \A r \in Router : \A p \in Port : {out[r][p], wire[r][p], avail[r][p]}' \subseteq Message
  BY <1>7, <1>9, MessageType DEF Shape
<1>11. Shape'
  <2>1. \A r \in Router : power'[r] \in Idle => \A p \in Port : out'[r][p] = NoMsg
    BY <1>0, <1>9, RelaysType DEF ReadInputs
  <2> QED
    BY <1>0, <1>7, <1>9, <2>1 DEF Shape
<1>12. timer' \in [Router -> Nat] /\ wake' \subseteq Router
  <2>1. PICK busy \in SUBSET Busy : NodeCycle(busy)
    BY DEF ReadInputs
  <2>2. busy \subseteq Router /\ timer \in [Router -> Nat] /\ wake \subseteq Router
    BY <2>1, FlovAssumption DEF TypeOK
  <2> QED
    BY <2>1, <2>2 DEF NodeCycle, IdleDetected
<1> QED
  BY <1>0, <1>2, <1>3, <1>4, <1>5, <1>6, <1>7, <1>8, <1>9, <1>10, <1>11, <1>12 DEF TypeOK

LEMMA PowerTypes ==
  ASSUME TypeOK, Shape, PowerStateEvaluate
  PROVE  TypeOK' /\ Shape'
<1>0. phase = "power" /\ phase' = "eval"
  BY DEF PowerStateEvaluate
<1>1. \A r \in Router : NextPower(r) \in PowerState
  BY NextPowerType DEF TypeOK
<1>2. power' \in [Router -> PowerState]
  BY <1>1 DEF PowerStateEvaluate
<1>3. tags' \in [Router -> SUBSET Port]
  <2> DEFINE T(r) == IF StartsDraining(r) \/ StartsWakeup(r)
                     THEN BoundaryPorts(r) \cup {p \in Port : down[r][p] = "off"}
                     ELSE IF NextPower(r) # power[r] THEN {}
                     ELSE IF power[r] = "wakeup" THEN WakeTags(r)
                     ELSE tags[r]
  <2>1. tags' = [r \in Router |-> T(r)]
    BY DEF PowerStateEvaluate
  <2>2. ASSUME NEW r \in Router PROVE T(r) \in SUBSET Port
    <3>1. tags[r] \subseteq Port /\ WakeTags(r) \subseteq Port /\ BoundaryPorts(r) \subseteq Port
      BY PortType DEF TypeOK, WakeTags
    <3> QED
      BY <3>1
  <2> HIDE DEF T
  <2> QED
    BY <2>1, <2>2
<1>4. timer' \in [Router -> Nat]
  BY DEF PowerStateEvaluate, TypeOK
<1>5. reqHid' \in [Router -> [Port -> Nat]]
  BY DEF PowerStateEvaluate, TypeOK
<1>6. out' \in [Router -> [Port -> Signed]]
  <2>1. \A r \in Router : \A p \in Port : Announcement(r, p) \in Signed /\ out[r][p] \in Signed
    BY AnnouncementType DEF Shape
  <2> QED
    BY <2>1 DEF PowerStateEvaluate
<1>7. wake' \subseteq Router
  BY DEF PowerStateEvaluate, TypeOK
<1>8. /\ UNCHANGED <<policy, down, nbr, logical, sent, respHid, wire, avail, active, occupied, flitWire, flitAvail>>
  BY DEF PowerStateEvaluate, chans, packets
<1>9. \A r \in Router : \A p \in Port : {out[r][p], wire[r][p], avail[r][p]}' \subseteq Message
  BY <1>6, <1>8, MessageType DEF Shape
<1>10. Shape'
  BY <1>0, <1>6, <1>8 DEF Shape
<1> QED
  BY <1>0, <1>2, <1>3, <1>4, <1>5, <1>7, <1>8, <1>9, <1>10 DEF TypeOK

LEMMA EvalTypes ==
  ASSUME TypeOK, Shape, Evaluate
  PROVE  TypeOK' /\ Shape'
<1>0. phase = "eval" /\ phase' = "write"
  BY DEF Evaluate
<1>1. PICK act \in SUBSET Traffic :
        /\ active' = act /\ occupied' \subseteq Gateable
        /\ out' = [r \in Router |-> [p \in Port |->
                    IF Responds(r, p, act)
                    THEN [out[r][p] EXCEPT !.done = TRUE, !.hid = respHid[r][p], !.id = r]
                    ELSE out[r][p]]]
        /\ sent' = [r \in Router |-> sent[r] \cup {p \in Port : Responds(r, p, act)}]
  BY DEF Evaluate
<1>2. out' \in [Router -> [Port -> Signed]]
  <2>1. ASSUME NEW r \in Router, NEW p \in Port
        PROVE  [out[r][p] EXCEPT !.done = TRUE, !.hid = respHid[r][p], !.id = r] \in Signed /\ out[r][p] \in Signed
    <3>1. out[r][p] \in Signed /\ respHid[r][p] \in Nat
      BY DEF Shape, TypeOK
    <3> QED
      BY <3>1 DEF Signed, Message
  <2> QED
    BY <1>1, <2>1
<1>3. sent' \in [Router -> SUBSET Port]
  BY <1>1 DEF TypeOK
<1>4. UNCHANGED <<policy, power, down, nbr, logical, tags, reqHid, respHid, timer, wake, wire, avail, flitWire, flitAvail>>
  BY DEF Evaluate, chans, voting
<1>5. \A r \in Router : \A p \in Port : {out[r][p], wire[r][p], avail[r][p]}' \subseteq Message
  BY <1>2, <1>4, MessageType DEF Shape
<1>6. Shape'
  BY <1>0, <1>2, <1>4 DEF Shape
<1> QED
  BY <1>0, <1>1, <1>3, <1>4, <1>5, <1>6 DEF TypeOK

LEMMA WriteTypes ==
  ASSUME TypeOK, Shape, WriteOutputs
  PROVE  TypeOK' /\ Shape'
<1>0. phase = "write" /\ phase' = "read" /\ wire' = out /\ avail' = wire
      /\ out' = [r \in Router |-> [p \in Port |-> NoMsg]] /\ flitAvail' = flitWire
  BY DEF WriteOutputs
<1>1. flitWire' \subseteq Router \X Port
  <2>1. PICK snd \in SUBSET active : flitWire' = snd \cup FliesOver
    BY DEF WriteOutputs
  <2>2. active \subseteq Router \X Port
    BY FlovAssumption DEF TypeOK
  <2>3. FliesOver \subseteq Router \X Port
    BY AnyLink DEF FliesOver, TypeOK
  <2> QED
    BY <2>1, <2>2, <2>3
<1>2. UNCHANGED <<policy, power, down, nbr, logical, tags, sent, reqHid, respHid, timer, wake, active, occupied>>
  BY DEF WriteOutputs, ctrl
<1>3. \A m \in {out', wire', avail'} : m \in [Router -> [Port -> Signed]]
  BY <1>0, MessageType DEF Shape
<1>4. \A r \in Router : \A p \in Port : {out[r][p], wire[r][p], avail[r][p]}' \subseteq Message
  BY <1>3, MessageType
<1>5. Shape'
  BY <1>0, <1>3 DEF Shape
<1> QED
  BY <1>0, <1>1, <1>2, <1>4, <1>5 DEF TypeOK

(* Votes leave what routers know alone. *)
Regular == <<phase, power, down, logical, out, wire, avail>>

LEMMA VoteTypes ==
  ASSUME TypeOK, PolicyTurn \/ UNCHANGED vars
  PROVE  TypeOK' /\ UNCHANGED Regular
<1>1. CASE PolicyTurn
  <2>1. PICK up \in SUBSET Gateable, dn \in SUBSET Gateable :
          /\ up \cap dn = {}
          /\ policy' = [r \in Router |-> CASE r \in up -> Aggressed(policy[r])
                                           [] r \in dn -> Regressed(policy[r])
                                           [] OTHER -> policy[r]]
          /\ wake' = wake \cup {r \in dn : WakesOnRegress(r)}
    BY <1>1 DEF PolicyTurn
  <2>2. policy' \in [Router -> Policy]
    <3>1. \A r \in Router : {policy[r], Aggressed(policy[r]), Regressed(policy[r])} \subseteq Policy
      BY DEF TypeOK, Aggressed, Regressed, Policy
    <3>2. policy' = [r \in Router |-> IF r \in up THEN Aggressed(policy[r])
                                      ELSE IF r \in dn THEN Regressed(policy[r]) ELSE policy[r]]
      BY <2>1
    <3> QED
      BY <3>1, <3>2
  <2>3. wake' \subseteq Router
    BY <2>1, FlovAssumption DEF TypeOK
  <2>4. UNCHANGED <<phase, power, down, nbr, logical, tags, sent, reqHid, respHid, timer, out, wire, avail,
                    active, occupied, flitWire, flitAvail>>
    BY <1>1 DEF PolicyTurn, chans, packets
  <2> QED
    BY <2>2, <2>3, <2>4 DEF TypeOK, Regular
<1>2. CASE UNCHANGED vars
  BY <1>2 DEF vars, ctrl, chans, packets, voting, TypeOK, Regular
<1> QED
  BY <1>1, <1>2

LEMMA TypesStep ==
  ASSUME TypeOK, Shape, \A r \in Router : \A p \in BoundaryPorts(r) : Edge(r, p), [Next]_vars
  PROVE  TypeOK' /\ Shape'
<1>1. CASE ReadInputs
  BY <1>1, ReadTypes
<1>2. CASE PowerStateEvaluate
  BY <1>2, PowerTypes
<1>3. CASE Evaluate
  BY <1>3, EvalTypes
<1>4. CASE WriteOutputs
  BY <1>4, WriteTypes
<1>5. CASE PolicyTurn \/ UNCHANGED vars
  BY <1>5, VoteTypes DEF Regular, Shape
<1> QED
  BY <1>1, <1>2, <1>3, <1>4, <1>5 DEF Next

-----------------------------------------------------------------------------
(* Believing.                                                              *)

LEMMA AfterIs ==
  ASSUME NEW m, NEW k
  PROVE  /\ After(m, k).down = IF m.new # "none" THEN m.new ELSE k.down
         /\ m.logical # NoRouter => After(m, k).logical = m.logical
         /\ m.logical = NoRouter /\ After(m, k).down # "off" => After(m, k).logical = k.logical
  BY DEF After

LEMMA IdleType == /\ "off" \notin Idle /\ "wakeup" \notin Idle /\ "none" \notin Idle
                  /\ "on" \in Idle /\ "draining" \in Idle
  BY DEF Idle

(* A handshake without news leaves what is believed alone. *)
LEMMA AfterNone == \A d, l : After(NoMsg, [down |-> d, logical |-> l]) = [down |-> d, logical |-> l]
  BY MessageType DEF After

LEMMA AfterIsPair == \A m, k : \E d, l : After(m, k) = [down |-> d, logical |-> l]
  BY DEF After

LEMMA NoneFits == \A k : Fits(NoMsg, k)
  BY MessageType, IdleType DEF Fits

LEMMA AgreeTransitive ==
  ASSUME NEW a, NEW b, NEW c, Agree(a, b), Agree(b, c)
  PROVE  Agree(a, c)
  BY DEF Agree

LEMMA AgreeReflexive == \A a : Agree(a, a)
  BY DEF Agree

LEMMA AgreeSymmetric == \A a, b : Agree(a, b) => Agree(b, a)
  BY DEF Agree

LEMMA FitsAgree == \A m, a, b : Agree(a, b) /\ Fits(m, a) => Fits(m, b)
  BY DEF Agree, Fits

(* Two routers that believe the same still do when both have read m, and   *)
(* it is enough that what they read says the same.                         *)
LEMMA AfterAgree ==
  ASSUME NEW a, NEW b, Agree(a, b), NEW m, NEW n, n.new = m.new, n.logical = m.logical, Fits(m, b)
  PROVE  Agree(After(m, a), After(n, b)) /\ Fits(n, b)
<1>1. Fits(n, b)
  BY DEF Fits
<1>2. After(m, a).down = After(n, b).down
  BY AfterIs DEF Agree
<1>3. ASSUME After(n, b).down \in Idle PROVE After(m, a).logical = After(n, b).logical
  <2>1. CASE m.logical # NoRouter
    BY <2>1, AfterIs
  <2>2. CASE m.logical = NoRouter
    <3>1. After(m, a).logical = a.logical /\ After(n, b).logical = b.logical
      BY <1>2, <1>3, <2>2, AfterIs, IdleType
    <3>2. b.down \in Idle
      BY <1>3, <2>2, AfterIs DEF Fits
    <3> QED
      BY <3>1, <3>2 DEF Agree
  <2> QED
    BY <2>1, <2>2
<1> QED
  BY <1>1, <1>2, <1>3 DEF Agree

(* A handshake that tells no state teaches nothing. *)
LEMMA AfterNothing ==
  ASSUME NEW m, NEW k, m.new = "none", Fits(m, k)
  PROVE  Agree(After(m, k), k)
<1>1. After(m, k).down = k.down
  BY AfterIs
<1>2. ASSUME k.down \in Idle PROVE After(m, k).logical = k.logical
  <2>1. m.logical = NoRouter
    BY <1>2 DEF Fits
  <2> QED
    BY <1>1, <1>2, <2>1, AfterIs, IdleType
<1> QED
  BY <1>1, <1>2 DEF Agree

LEMMA AfterNamed ==
  ASSUME NEW m, NEW k, Named(k), Fits(m, k)
  PROVE  Named(After(m, k))
<1> SUFFICES ASSUME After(m, k).down \in Idle PROVE After(m, k).logical # NoRouter
  BY DEF Named
<1>1. CASE m.logical # NoRouter
  BY <1>1, AfterIs
<1>2. CASE m.logical = NoRouter
  <2>1. After(m, k).logical = k.logical /\ k.down \in Idle
    BY <1>2, AfterIs, IdleType DEF Fits
  <2> QED
    BY <2>1 DEF Named
<1> QED
  BY <1>1, <1>2

-----------------------------------------------------------------------------
(* The invariant. *)

LEMMA InitKInv == Init => KInv
<1> SUFFICES ASSUME Init PROVE KInv
  OBVIOUS
<1>1. TypeOK /\ Shape
  BY InitTypeOK
<1>2. ASSUME NEW r \in Router, NEW p \in Port
      PROVE  /\ down[r][p] = IF Boundary(r, p) THEN "off" ELSE "on"
             /\ logical[r][p] = IF Boundary(r, p) THEN NoRouter ELSE Nbr(r, p)
             /\ out[r][p] = NoMsg /\ wire[r][p] = NoMsg /\ avail[r][p] = NoMsg
  BY DEF Init
<1>3. ASSUME NEW r \in Router, NEW p \in Port PROVE Named(Known(r, p))
  <2>1. Nbr(r, p) # NoRouter
    BY AnyLink, FlovAssumption
  <2> QED
    BY <1>2, <2>1, IdleType DEF Named, Known
<1>4. \A r \in Router : \A p \in BoundaryPorts(r) : Edge(r, p)
  BY <1>2, PortType DEF Edge
<1>5. ASSUME NEW r \in Router, NEW p \in MeshPorts(r) PROVE LinkInv(r, p)
  <2> DEFINE n == Nbr(r, p)
             k == Known(r, p)
  <2>1. p \in Port /\ ~Boundary(r, p) /\ n \in Router /\ Opp(p) \in Port
    BY MeshLink, PortType
  <2>2. Arrived(r, p) = NoMsg /\ Coming(r, p) = NoMsg /\ Queued(r, p) = NoMsg
    BY <1>2, <2>1 DEF Arrived, Arriving, Coming, Queued
  <2>3. k = [down |-> "on", logical |-> n]
    BY <1>2, <2>1 DEF Known
  <2>4. Known1(r, p) = k /\ Known2(r, p) = k /\ Known3(r, p) = k
    BY <2>2, <2>3, AfterNone DEF Known1, Known2, Known3
  <2>5. power[n] = "on"
    BY <2>1 DEF Init
  <2>6. Shown(n, p) = k
    BY <2>3, <2>5 DEF Shown
  <2> QED
    BY <2>2, <2>4, <2>6, NoneFits, AgreeReflexive DEF LinkInv
<1> QED
  BY <1>1, <1>3, <1>4, <1>5 DEF KInv

LEMMA RegularKeeps ==
  ASSUME KInv, TypeOK', UNCHANGED Regular
  PROVE  KInv'
<1>1. UNCHANGED <<phase, power, down, logical, out, wire, avail>>
  BY DEF Regular
<1>2. Shape'
  BY <1>1 DEF KInv, Shape
<1>3. \A r, p : Known(r, p)' = Known(r, p) /\ Arriving(r, p)' = Arriving(r, p)
  BY <1>1 DEF Known, Arriving
<1>4. \A r, p : /\ Arrived(r, p)' = Arrived(r, p) /\ Coming(r, p)' = Coming(r, p)
                /\ Queued(r, p)' = Queued(r, p) /\ Shown(r, p)' = Shown(r, p)
  BY <1>1, <1>3 DEF Arrived, Coming, Queued, Shown
<1>5. \A r, p : Known1(r, p)' = Known1(r, p)
  BY <1>3, <1>4 DEF Known1
<1>6. \A r, p : Known2(r, p)' = Known2(r, p)
  BY <1>4, <1>5 DEF Known2
<1>7. \A r, p : Known3(r, p)' = Known3(r, p)
  BY <1>4, <1>6 DEF Known3
<1>8. \A r \in Router : \A p \in MeshPorts(r) : LinkInv(r, p)'
  BY <1>3, <1>4, <1>5, <1>6, <1>7 DEF KInv, LinkInv
<1>9. \A r \in Router : \A p \in BoundaryPorts(r) : Edge(r, p)'
  BY <1>1 DEF KInv, Edge
<1>10. \A r \in Router : \A p \in Port : Named(Known(r, p)')
  BY <1>3 DEF KInv
<1> QED
  BY <1>2, <1>8, <1>9, <1>10 DEF KInv

(* How the invariant carries over to the next state, link by link. *)
LEMMA KInvNext ==
  ASSUME KInv, TypeOK', Shape',
         \A r \in Router : \A p \in Port : Named(Known(r, p)'),
         \A r \in Router : \A p \in BoundaryPorts(r) : Edge(r, p)',
         \A r \in Router : \A p \in MeshPorts(r) : LinkInv(r, p)'
  PROVE  KInv'
  BY DEF KInv

(* WriteOutputs: everything moves on by one place.                         *)
LEMMA WriteStep == KInv /\ WriteOutputs => KInv'
<1> SUFFICES ASSUME KInv, WriteOutputs PROVE KInv'
  OBVIOUS
<1>1. /\ phase = "write" /\ phase' = "read" /\ wire' = out /\ avail' = wire
      /\ out' = [r \in Router |-> [p \in Port |-> NoMsg]]
      /\ UNCHANGED <<power, down, logical>>
  BY DEF WriteOutputs, ctrl
<1>2. TypeOK' /\ Shape'
  BY WriteTypes DEF KInv
<1>3. \A r, p : Known(r, p)' = Known(r, p) /\ Shown(r, p)' = Shown(r, p)
  BY <1>1 DEF Known, Shown
<1>4. ASSUME NEW r \in Router, NEW p \in BoundaryPorts(r) PROVE Edge(r, p)'
  BY <1>1, PortType DEF KInv, Edge
<1>5. ASSUME NEW r \in Router, NEW p \in MeshPorts(r) PROVE LinkInv(r, p)'
  <2>1. p \in Port /\ Nbr(r, p) \in Router /\ Opp(p) \in Port
    BY MeshLink
  <2>2. Arrived(r, p) = NoMsg /\ Arrived(r, p)' = Coming(r, p)
    BY <1>1 DEF Arrived, Arriving, Coming
  <2>3. Coming(r, p)' = Queued(r, p) /\ Queued(r, p)' = NoMsg
    BY <1>1, <2>1 DEF Coming, Queued
  <2>4. Known1(r, p) = Known(r, p)
    BY <2>2, AfterNone DEF Known1, Known
  <2>5. Known1(r, p)' = Known2(r, p)
    BY <1>3, <2>2, <2>4 DEF Known1, Known2
  <2>6. Known2(r, p)' = Known3(r, p)
    BY <2>3, <2>5 DEF Known2, Known3
  <2>7. Known3(r, p)' = Known3(r, p)
    <3>1. Known3(r, p)' = After(NoMsg, Known3(r, p))
      BY <2>3, <2>6 DEF Known3
    <3>2. PICK d, l : Known3(r, p) = [down |-> d, logical |-> l]
      BY AfterIsPair DEF Known3
    <3> QED
      BY <3>1, <3>2, AfterNone
  <2>8. LinkInv(r, p)
    BY DEF KInv
  <2> QED
    BY <1>3, <2>2, <2>3, <2>4, <2>5, <2>6, <2>7, <2>8, NoneFits DEF LinkInv
<1>6. \A r \in Router : \A p \in Port : Named(Known(r, p)')
  BY <1>3 DEF KInv
<1> QED
  BY <1>2, <1>4, <1>5, <1>6, KInvNext

(* Evaluate: an answer says nothing about states.                          *)
LEMMA EvalStep == KInv /\ Evaluate => KInv'
<1> SUFFICES ASSUME KInv, Evaluate PROVE KInv'
  OBVIOUS
<1>1. phase = "eval" /\ phase' = "write" /\ UNCHANGED <<power, down, logical, wire, avail>>
  BY DEF Evaluate, chans
<1>2. PICK act \in SUBSET Traffic :
        out' = [r \in Router |-> [p \in Port |->
                  IF Responds(r, p, act)
                  THEN [out[r][p] EXCEPT !.done = TRUE, !.hid = respHid[r][p], !.id = r]
                  ELSE out[r][p]]]
  BY DEF Evaluate
<1>3. TypeOK' /\ Shape'
  BY EvalTypes DEF KInv
<1>4. ASSUME NEW r \in Router, NEW p \in Port
      PROVE  /\ out'[r][p].new = out[r][p].new /\ out'[r][p].logical = out[r][p].logical
             /\ down[r][p] = "off" => out'[r][p] = out[r][p]
  <2>1. out[r][p] \in Message
    BY DEF KInv, TypeOK
  <2>2. down[r][p] = "off" => ~Responds(r, p, act)
    BY DEF Responds
  <2> QED
    BY <1>2, <2>1, <2>2 DEF Message
<1>5. \A r, p : /\ Known(r, p)' = Known(r, p) /\ Shown(r, p)' = Shown(r, p)
                /\ Arrived(r, p)' = NoMsg /\ Arrived(r, p) = NoMsg /\ Coming(r, p)' = Coming(r, p)
  BY <1>1 DEF Known, Shown, Arrived, Coming
<1>6. ASSUME NEW r \in Router, NEW p \in BoundaryPorts(r) PROVE Edge(r, p)'
  BY <1>1, <1>4, PortType DEF KInv, Edge
<1>7. ASSUME NEW r \in Router, NEW p \in MeshPorts(r) PROVE LinkInv(r, p)'
  <2>1. p \in Port /\ Nbr(r, p) \in Router /\ Opp(p) \in Port
    BY MeshLink
  <2>2. Known1(r, p)' = Known1(r, p)
    BY <1>5 DEF Known1
  <2>3. Known2(r, p)' = Known2(r, p)
    BY <1>5, <2>2 DEF Known2
  <2>4. LinkInv(r, p)
    BY DEF KInv
  <2>5. Queued(r, p)'.new = Queued(r, p).new /\ Queued(r, p)'.logical = Queued(r, p).logical
    BY <1>4, <2>1 DEF Queued
  <2>6. Agree(Known3(r, p), Known3(r, p)') /\ Fits(Queued(r, p)', Known2(r, p))
    BY <2>3, <2>4, <2>5, AfterAgree, AgreeReflexive DEF LinkInv, Known3
  <2>7. Agree(Known3(r, p)', Shown(Nbr(r, p), p))
    BY <2>4, <2>6, AgreeSymmetric, AgreeTransitive DEF LinkInv
  <2> QED
    BY <1>5, <2>2, <2>3, <2>4, <2>6, <2>7, NoneFits DEF LinkInv
<1>8. \A r \in Router : \A p \in Port : Named(Known(r, p)')
  BY <1>5 DEF KInv
<1> QED
  BY <1>3, <1>6, <1>7, <1>8, KInvNext

(* PowerStateEvaluate: who changes its state announces it, or what is      *)
(* behind it, where nothing else is waiting to be sent.                    *)
LEMMA AnnouncementTells ==
  ASSUME KInv, phase = "power", NEW r \in Router, NEW p \in MeshPorts(r),
         NEW n, n = Nbr(r, p), NEW q, q = Opp(p), NextPower(n) # power[n],
         NEW s, s = IF NextPower(n) = "off" THEN Known(n, p) ELSE [down |-> NextPower(n), logical |-> n]
  PROVE  /\ Fits(Announcement(n, q), Known2(r, p))
         /\ Agree(After(Announcement(n, q), Known2(r, p)), s)
<1> DEFINE m == Announcement(n, q)
           k == Known2(r, p)
<1>1. n \in Router /\ q \in Port /\ Opp(q) = p /\ p \in Port
  BY MeshLink
<1>2. TypeOK /\ power[n] \in PowerState /\ n # NoRouter
  BY <1>1, FlovAssumption DEF KInv, TypeOK
<1>3. out[n][q] = NoMsg
  <2>1. power[n] \in Idle \/ OutEmpty(n)
    BY <1>1, <1>2, NextPowerType DEF PowerState, Idle
  <2> QED
    BY <1>1, <2>1 DEF KInv, Shape, OutEmpty
<1>4. Agree(k, Shown(n, p))
  <2>1. Known3(r, p) = k
    <3>1. Known3(r, p) = After(NoMsg, k)
      BY <1>3 DEF Known3, Queued
    <3>2. PICK d, l : k = [down |-> d, logical |-> l]
      BY AfterIsPair DEF Known2
    <3> HIDE DEF k
    <3> QED
      BY <3>1, <3>2, AfterNone
  <2> QED
    BY <2>1 DEF KInv, LinkInv
<1>5. /\ NextPower(n) = "off" => m.new = down[n][p] /\ m.logical = logical[n][p]
      /\ NextPower(n) # "off" => /\ m.new = NextPower(n)
                                 /\ m.logical = IF PowersOn(n) THEN n ELSE NoRouter
  BY <1>1, <1>2, AnnouncementType
<1>6. down[n][p] \in PowerState /\ Named(Known(n, p))
  BY <1>1, <1>2 DEF TypeOK, KInv
<1>7. power[n] # "off" => k.down = power[n] /\ (power[n] \in Idle => k.logical = n)
  BY <1>4 DEF Agree, Shown
<1> HIDE DEF m, k
<1>8. CASE NextPower(n) = "off"
  <2>1. power[n] = "draining" /\ k.down = "draining" /\ m.new \in PowerState
    BY <1>1, <1>2, <1>5, <1>6, <1>7, <1>8, NextPowerType DEF PowerState
  <2>2. Fits(m, k)
    BY <2>1, IdleType DEF Fits, PowerState
  <2>3. After(m, k).down = down[n][p]
    BY <1>5, <1>8, <2>1, AfterIs DEF PowerState
  <2>4. down[n][p] \in Idle => After(m, k).logical = logical[n][p]
    BY <1>5, <1>6, <1>8, AfterIs DEF Named, Known
  <2>5. Agree(After(m, k), Known(n, p))
    BY <2>3, <2>4 DEF Agree, Known
  <2> QED
    BY <1>8, <2>2, <2>5 DEF m, k
<1>9. CASE NextPower(n) # "off" /\ PowersOn(n)
  <2>1. m.new = NextPower(n) /\ m.logical = n /\ NextPower(n) \in PowerState
    BY <1>1, <1>2, <1>5, <1>9, NextPowerType
  <2>2. Fits(m, k)
    BY <1>2, <2>1 DEF Fits, PowerState
  <2>3. After(m, k).down = NextPower(n) /\ After(m, k).logical = n
    BY <1>2, <2>1, AfterIs DEF PowerState
  <2> QED
    BY <1>9, <2>2, <2>3 DEF Agree, m, k
<1>10. CASE NextPower(n) # "off" /\ ~PowersOn(n)
  <2>1. m.new = NextPower(n) /\ m.logical = NoRouter /\ NextPower(n) \in PowerState
    BY <1>1, <1>2, <1>5, <1>10, NextPowerType
  <2>2. NextPower(n) \in Idle => power[n] \in Idle
    BY <1>1, <1>2, <1>10, NextPowerType DEF PowerState, Idle
  <2>3. NextPower(n) \in Idle => k.down \in Idle /\ k.logical = n
    BY <1>7, <2>2, IdleType
  <2>4. Fits(m, k)
    BY <2>1, <2>3 DEF Fits, PowerState
  <2>5. After(m, k).down = NextPower(n)
    BY <2>1, AfterIs DEF PowerState
  <2>6. NextPower(n) \in Idle => After(m, k).logical = n
    BY <2>1, <2>3, <2>5, AfterIs, IdleType
  <2> QED
    BY <1>10, <2>4, <2>5, <2>6 DEF Agree, m, k
<1> QED
  BY <1>8, <1>9, <1>10

LEMMA PowerStep == KInv /\ PowerStateEvaluate => KInv'
<1> SUFFICES ASSUME KInv, PowerStateEvaluate PROVE KInv'
  OBVIOUS
<1>1. /\ phase = "power" /\ phase' = "eval" /\ UNCHANGED <<down, logical, wire, avail>>
      /\ power' = [r \in Router |-> NextPower(r)]
      /\ out' = [r \in Router |-> [p \in Port |->
                  IF Announces(r, p) THEN Announcement(r, p) ELSE out[r][p]]]
  BY DEF PowerStateEvaluate, chans
<1>2. TypeOK' /\ Shape'
  BY PowerTypes DEF KInv
<1>3. \A r, p : /\ Known(r, p)' = Known(r, p) /\ Arrived(r, p)' = NoMsg /\ Arrived(r, p) = NoMsg
                /\ Coming(r, p)' = Coming(r, p)
  BY <1>1 DEF Known, Arrived, Coming
<1>4. ASSUME NEW r \in Router, NEW p \in BoundaryPorts(r) PROVE Edge(r, p)'
  <2>1. p \in Port /\ ~Announces(r, p)
    BY PortType DEF Announces
  <2> QED
    BY <1>1, <2>1 DEF KInv, Edge
<1>5. ASSUME NEW r \in Router, NEW p \in MeshPorts(r) PROVE LinkInv(r, p)'
  <2> DEFINE n == Nbr(r, p)
             q == Opp(p)
             s == IF NextPower(n) = "off" THEN Known(n, p) ELSE [down |-> NextPower(n), logical |-> n]
  <2>1. p \in Port /\ n \in Router /\ q \in Port /\ ~Boundary(n, q)
    BY MeshLink, PortType
  <2>2. Known1(r, p)' = Known1(r, p)
    BY <1>3 DEF Known1
  <2>3. Known2(r, p)' = Known2(r, p)
    BY <1>3, <2>2 DEF Known2
  <2>4. LinkInv(r, p)
    BY DEF KInv
  <2>5. Shown(n, p)' = s
    BY <1>1, <1>3, <2>1 DEF Shown
  <2>6. Queued(r, p)' = IF NextPower(n) = power[n] THEN Queued(r, p) ELSE Announcement(n, q)
    BY <1>1, <2>1 DEF Queued, Announces
  <2>7. Fits(Queued(r, p)', Known2(r, p)) /\ Agree(After(Queued(r, p)', Known2(r, p)), s)
    <3>1. CASE NextPower(n) = power[n]
      BY <2>4, <2>6, <3>1 DEF LinkInv, Known3, Shown
    <3>2. CASE NextPower(n) # power[n]
      BY <1>1, <2>6, <3>2, AnnouncementTells
    <3> QED
      BY <3>1, <3>2
  <2>8. Known3(r, p)' = After(Queued(r, p)', Known2(r, p))
    BY <2>3 DEF Known3
  <2> HIDE DEF s
  <2> QED
    BY <1>3, <2>2, <2>3, <2>4, <2>5, <2>7, <2>8, NoneFits DEF LinkInv
<1>6. \A r \in Router : \A p \in Port : Named(Known(r, p)')
  BY <1>3 DEF KInv
<1> QED
  BY <1>2, <1>4, <1>5, <1>6, KInvNext

(* ReadInputs: what is read is believed, and a router that is off lets it  *)
(* pass on to whom it concerns.                                            *)
LEMMA ReadingIs ==
  ASSUME ReadInputs, NEW r \in Router, NEW p \in Port
  PROVE  Known(r, p)' = After(Arriving(r, p), Known(r, p))
<1>1. down'[r][p] = NewDown(r, p) /\ logical'[r][p] = NewLogical(r, p)
  BY DEF ReadInputs
<1>2. After(Arriving(r, p), Known(r, p)).down = NewDown(r, p)
  BY AfterIs DEF NewDown, Known
<1>3. After(Arriving(r, p), Known(r, p)).logical = NewLogical(r, p)
  <2> DEFINE m == Arriving(r, p)
  <2>1. NewLogical(r, p) = IF m.logical # NoRouter THEN m.logical
                           ELSE IF m # NoMsg /\ NewDown(r, p) = "off" THEN NoRouter ELSE logical[r][p]
    BY DEF NewLogical
  <2>2. After(m, Known(r, p)).logical =
          IF m.logical # NoRouter THEN m.logical
          ELSE IF m # NoMsg /\ After(m, Known(r, p)).down = "off" THEN NoRouter ELSE Known(r, p).logical
    BY DEF After
  <2>3. Known(r, p).logical = logical[r][p]
    BY DEF Known
  <2> HIDE DEF m
  <2> QED
    BY <1>2, <2>1, <2>2, <2>3 DEF m
<1>4. PICK d, l : After(Arriving(r, p), Known(r, p)) = [down |-> d, logical |-> l]
  BY AfterIsPair
<1>5. d = NewDown(r, p) /\ l = NewLogical(r, p)
  BY <1>2, <1>3, <1>4
<1> QED
  BY <1>1, <1>4, <1>5 DEF Known

LEMMA ArrivingFits ==
  ASSUME KInv, phase = "read", NEW r \in Router, NEW p \in Port
  PROVE  Fits(Arriving(r, p), Known(r, p))
<1>1. CASE Boundary(r, p)
  <2>1. Arriving(r, p) = NoMsg
    BY <1>1, ArrivingType DEF KInv
  <2> QED
    BY <2>1, NoneFits
<1>2. CASE ~Boundary(r, p)
  BY <1>2, PortType DEF KInv, LinkInv, Arrived
<1> QED
  BY <1>1, <1>2

LEMMA RelayTells ==
  ASSUME KInv, ReadInputs, NEW r \in Router, NEW p \in MeshPorts(r),
         NEW n, n = Nbr(r, p), NEW q, q = Opp(p)
  PROVE  /\ Fits(Relays(n).out[q], Known2(r, p))
         /\ Agree(After(Relays(n).out[q], Known2(r, p)), Shown(n, p)')
<1> DEFINE k == Known2(r, p)
           o == Relays(n).out[q]
<1>0. /\ TypeOK /\ Shape /\ phase = "read" /\ power' = power
      /\ \A t \in Router : \A i \in BoundaryPorts(t) : Edge(t, i)
  BY DEF KInv, ReadInputs
<1>1. n \in Router /\ q \in Port /\ Opp(q) = p /\ p \in Port /\ ~Boundary(n, q)
  BY MeshLink, PortType
<1>2. \E d, l : k = [down |-> d, logical |-> l]
  BY AfterIsPair DEF Known2
<1>3. Agree(k, Shown(n, p))
  <2>1. Queued(r, p) = NoMsg
    BY <1>0, <1>1 DEF Shape, Queued
  <2>2. Known3(r, p) = After(NoMsg, k)
    BY <2>1 DEF Known3
  <2> HIDE DEF k
  <2>3. Known3(r, p) = k
    BY <1>2, <2>2, AfterNone
  <2> QED
    BY <2>3 DEF KInv, LinkInv
<1>4. After(NoMsg, k) = k
  <2> HIDE DEF k
  <2> QED
    BY <1>2, AfterNone
<1>5. power[n] \in PowerState
  BY <1>0, <1>1 DEF TypeOK
<1> HIDE DEF k
<1>6. CASE power[n] \in Idle
  <2>1. o = NoMsg
    BY <1>0, <1>1, <1>6, RelaysType
  <2>2. Shown(n, p)' = Shown(n, p)
    BY <1>0, <1>6, IdleType DEF Shown
  <2> QED
    BY <1>3, <1>4, <2>1, <2>2, NoneFits DEF k
<1>7. CASE power[n] = "wakeup"
  <2>1. o.new = "none" /\ k.down = "wakeup"
    BY <1>0, <1>1, <1>3, <1>7, RelaysType DEF Agree, Shown
  <2>2. Fits(o, k)
    BY <2>1, IdleType DEF Fits
  <2>3. Shown(n, p)' = Shown(n, p)
    BY <1>0, <1>7 DEF Shown
  <2>4. Agree(After(o, k), Shown(n, p))
    BY <1>3, <2>1, <2>2, AfterNothing, AgreeTransitive
  <2> QED
    BY <2>2, <2>3, <2>4 DEF k
<1>8. CASE power[n] = "off"
  <2> DEFINE m == Arriving(n, p)
  <2>1. o = Relayed(n, p)
    BY <1>0, <1>1, <1>8, RelaysType
  <2>2. m \in Signed
    BY <1>0, <1>1, ArrivingType
  <2>3. Fits(m, Known(n, p))
    BY <1>0, <1>1, ArrivingFits
  <2>4. Shown(n, p)' = After(m, Known(n, p)) /\ Agree(k, Known(n, p))
    BY <1>0, <1>1, <1>3, <1>8, ReadingIs DEF Shown
  <2>5. Fits(m, k)
    BY <2>3, <2>4, AgreeSymmetric, FitsAgree
  <2>6. Agree(After(m, k), After(m, Known(n, p)))
    BY <2>3, <2>4, AfterAgree
  <2>7. CASE o = NoMsg
    <3>1. m.new = "none"
      BY <1>1, <2>1, <2>2, <2>7, RelayedType
    <3>2. Agree(After(m, k), k)
      BY <2>5, <3>1, AfterNothing
    <3>3. Agree(k, After(m, Known(n, p)))
      BY <2>6, <3>2, AgreeSymmetric, AgreeTransitive
    <3> QED
      BY <1>4, <2>4, <2>7, <3>3, NoneFits DEF k
  <2>8. CASE o # NoMsg
    <3>1. o.new = m.new /\ o.logical = m.logical
      BY <1>1, <2>1, <2>2, <2>8, RelayedType
    <3> HIDE DEF m, o
    <3>2. Fits(o, k) /\ Agree(After(m, k), After(o, k))
      BY <2>5, <3>1, AfterAgree, AgreeReflexive
    <3>3. Agree(After(o, k), After(m, Known(n, p)))
      BY <2>6, <3>2, AgreeSymmetric, AgreeTransitive
    <3> QED
      BY <2>4, <3>2, <3>3 DEF k, o
  <2> QED
    BY <2>7, <2>8
<1> QED
  BY <1>5, <1>6, <1>7, <1>8 DEF PowerState, Idle

LEMMA ReadStep == KInv /\ ReadInputs => KInv'
<1> SUFFICES ASSUME KInv, ReadInputs PROVE KInv'
  OBVIOUS
<1>0. /\ TypeOK /\ Shape /\ phase = "read"
      /\ \A t \in Router : \A i \in BoundaryPorts(t) : Edge(t, i)
  BY DEF KInv, ReadInputs
<1>1. /\ phase' = "power" /\ UNCHANGED <<wire, avail>>
      /\ out' = [r \in Router |-> Relays(r).out]
  BY DEF ReadInputs, chans
<1>2. TypeOK' /\ Shape'
  BY <1>0, ReadTypes
<1>3. ASSUME NEW r \in Router, NEW p \in Port PROVE Named(Known(r, p)')
  <2>1. Named(Known(r, p)) /\ Fits(Arriving(r, p), Known(r, p))
    BY <1>0, ArrivingFits DEF KInv
  <2> QED
    BY <2>1, AfterNamed, ReadingIs
<1>4. ASSUME NEW r \in Router, NEW p \in BoundaryPorts(r) PROVE Edge(r, p)'
  <2>1. p \in Port /\ Boundary(r, p) /\ Edge(r, p)
    BY <1>0, PortType
  <2>2. Arriving(r, p) = NoMsg
    BY <1>0, <2>1, ArrivingType
  <2>3. down'[r][p] = down[r][p]
    BY <2>1, <2>2, MessageType DEF ReadInputs, NewDown
  <2>4. out'[r][p] = NoMsg
    BY <1>0, <1>1, <2>1, RelaysType
  <2> QED
    BY <1>1, <2>1, <2>3, <2>4 DEF Edge
<1>5. ASSUME NEW r \in Router, NEW p \in MeshPorts(r) PROVE LinkInv(r, p)'
  <2> DEFINE n == Nbr(r, p)
             q == Opp(p)
  <2>1. p \in Port /\ n \in Router /\ q \in Port
    BY MeshLink
  <2>2. Arrived(r, p) = Arriving(r, p) /\ Arrived(r, p)' = NoMsg /\ Coming(r, p)' = Coming(r, p)
        /\ Queued(r, p)' = Relays(n).out[q]
    BY <1>0, <1>1, <2>1 DEF Arrived, Coming, Queued
  <2>3. Known(r, p)' = Known1(r, p)
    BY <2>1, <2>2, ReadingIs DEF Known1
  <2>4. Known1(r, p)' = Known1(r, p)
    <3>1. Known1(r, p)' = After(NoMsg, Known1(r, p))
      BY <2>2, <2>3 DEF Known1
    <3>2. PICK d, l : Known1(r, p) = [down |-> d, logical |-> l]
      BY AfterIsPair DEF Known1
    <3> QED
      BY <3>1, <3>2, AfterNone
  <2>5. Known2(r, p)' = Known2(r, p)
    BY <2>2, <2>4 DEF Known2
  <2>6. Known3(r, p)' = After(Relays(n).out[q], Known2(r, p))
    BY <2>2, <2>5 DEF Known3
  <2>7. LinkInv(r, p)
    BY DEF KInv
  <2>8. Fits(Relays(n).out[q], Known2(r, p)) /\ Agree(Known3(r, p)', Shown(n, p)')
    BY <2>6, RelayTells
  <2> QED
    BY <2>2, <2>3, <2>4, <2>5, <2>7, <2>8, NoneFits DEF LinkInv
<1> QED
  BY <1>2, <1>3, <1>4, <1>5, KInvNext

LEMMA NextKInv == KInv /\ [Next]_vars => KInv'
<1> SUFFICES ASSUME KInv, [Next]_vars PROVE KInv'
  OBVIOUS
<1>1. CASE PolicyTurn \/ UNCHANGED vars
  <2>1. TypeOK' /\ UNCHANGED Regular
    BY <1>1, VoteTypes DEF KInv
  <2> QED
    BY <2>1, RegularKeeps
<1> QED
  BY <1>1, ReadStep, PowerStep, EvalStep, WriteStep DEF Next

-----------------------------------------------------------------------------
(* The rows and columns of the mesh. *)

(* How far a router is from the edge it comes from in direction p. *)
Along(r, p) ==
  CASE p = East  -> Col(r)
    [] p = West  -> K - 1 - Col(r)
    [] p = South -> Row(r)
    [] p = North -> K - 1 - Row(r)

LEMMA AlongType ==
  ASSUME NEW r \in Router, NEW p \in Port
  PROVE  /\ Along(r, p) \in 0 .. K - 1
         /\ Boundary(r, p) <=> Along(r, p) = K - 1
         /\ ~Boundary(r, p) => Along(Nbr(r, p), p) = Along(r, p) + 1 /\ Nbr(r, p) \in Ahead(r, p)
<1>6. p = 0 \/ p = 1 \/ p = 2 \/ p = 3
  BY DEF Port
<1> USE KAssumption DEF Router, Coord, Port, Boundary, Nbr, Succ, Pred, Along, Row, Col,
                        East, West, South, North, Ahead
<1>0. PICK i \in Coord, j \in Coord : r = <<i, j>>
  OBVIOUS
<1>1. i \in Int /\ j \in Int /\ K \in Int
  OBVIOUS
<1>2. CASE p = 0
  BY <1>0, <1>1, <1>2
<1>3. CASE p = 1
  BY <1>0, <1>1, <1>3
<1>4. CASE p = 2
  BY <1>0, <1>1, <1>4
<1>5. CASE p = 3
  BY <1>0, <1>1, <1>5
<1> QED
  BY <1>2, <1>3, <1>4, <1>5, <1>6

(* Routers ahead of a router are further along, and routers further along  *)
(* in the same row or column are ahead.                                    *)
LEMMA AheadAlong ==
  ASSUME NEW r \in Router, NEW p \in Port
  PROVE  /\ \A q \in Ahead(r, p) : q \in Router /\ Along(q, p) > Along(r, p)
         /\ \A q \in Ahead(r, p) : Ahead(q, p) \subseteq Ahead(r, p)
         /\ \A q \in Ahead(r, p) : \A s \in Ahead(r, p) :
              /\ s \in Ahead(q, p) <=> Along(s, p) > Along(q, p)
              /\ Along(s, p) = Along(q, p) => s = q
<1>6. p = 0 \/ p = 1 \/ p = 2 \/ p = 3
  BY DEF Port
<1> USE DEF Along, Ahead, East, West, South, North
<1>0. \A q \in Router : Row(q) \in Int /\ Col(q) \in Int /\ q = <<Row(q), Col(q)>>
  BY DEF Router, Coord, Row, Col
<1>1. K \in Int
  BY KAssumption
<1>2. CASE p = 0
  BY <1>0, <1>1, <1>2
<1>3. CASE p = 1
  BY <1>0, <1>1, <1>3
<1>4. CASE p = 2
  BY <1>0, <1>1, <1>4
<1>5. CASE p = 3
  BY <1>0, <1>1, <1>5
<1> QED
  BY <1>2, <1>3, <1>4, <1>5, <1>6

-----------------------------------------------------------------------------
(* From one channel to a whole stretch of routers that are off. *)

(* A router agrees with its neighbour once nothing is under way. *)
LEMMA LinkTells ==
  ASSUME KInv, phase = "read", NEW r \in Router, NEW p \in MeshPorts(r),
         wire[Nbr(r, p)][Opp(p)].new = "none", avail[Nbr(r, p)][Opp(p)].new = "none"
  PROVE  Agree(Known(r, p), Shown(Nbr(r, p), p))
<1>1. /\ Arrived(r, p).new = "none" /\ Coming(r, p).new = "none"
      /\ Queued(r, p) = NoMsg
  BY MeshLink DEF Arrived, Arriving, Coming, Queued, KInv, Shape
<1>2. LinkInv(r, p)
  BY DEF KInv
<1>3. Agree(Known1(r, p), Known(r, p))
  BY <1>1, <1>2, AfterNothing DEF LinkInv, Known1
<1>4. Agree(Known2(r, p), Known1(r, p))
  BY <1>1, <1>2, AfterNothing DEF LinkInv, Known2
<1>5. Known3(r, p) = Known2(r, p)
  <2>1. PICK d, l : Known2(r, p) = [down |-> d, logical |-> l]
    BY AfterIsPair DEF Known2
  <2> QED
    BY <1>1, <2>1, AfterNone DEF Known3
<1>6. Agree(Known2(r, p), Shown(Nbr(r, p), p))
  BY <1>2, <1>5 DEF LinkInv
<1>7. Agree(Known(r, p), Known1(r, p)) /\ Agree(Known1(r, p), Known2(r, p))
  BY <1>3, <1>4, AgreeSymmetric
<1>8. Agree(Known(r, p), Known2(r, p))
  BY <1>7, AgreeTransitive
<1> QED
  BY <1>6, <1>8, AgreeTransitive

LEMMA Least ==
  ASSUME NEW S \in SUBSET Nat, S # {}
  PROVE  \E x \in S : \A y \in S : x <= y
<1> DEFINE R == OpToRel(<, Nat)
<1>1. IsWellFoundedOn(R, Nat)
  BY NatLessThanWellFounded
<1>2. \A x \in Nat, y \in Nat : <<y, x>> \in R <=> y < x
  BY DEF OpToRel
<1> HIDE DEF R
<1>3. PICK x \in S : \A y \in S : ~(<<y, x>> \in R)
  BY <1>1, WFMin
<1>4. \A y \in S : ~(y < x)
  BY <1>2, <1>3
<1> QED
  BY <1>4

(* Of some routers, one is nearest to the edge that p leaves from, and one *)
(* is nearest to the edge that it leads to.                                *)
LEMMA Extremes ==
  ASSUME NEW p \in Port, NEW S \in SUBSET Router, S # {}
  PROVE  /\ \E x \in S : \A y \in S : Along(x, p) <= Along(y, p)
         /\ \E x \in S : \A y \in S : Along(x, p) >= Along(y, p)
<1>1. \A x \in S : Along(x, p) \in Nat /\ K - 1 - Along(x, p) \in Nat /\ Along(x, p) \in Int
  BY AlongType, KAssumption
<1>2. \E x \in S : \A y \in S : Along(x, p) <= Along(y, p)
  <2> DEFINE A == {Along(x, p) : x \in S}
  <2>1. A \in SUBSET Nat /\ A # {}
    BY <1>1
  <2>2. PICK a \in A : \A b \in A : a <= b
    <3> HIDE DEF A
    <3> QED
      BY <2>1, Least
  <2> QED
    BY <2>2
<1>3. \E x \in S : \A y \in S : Along(x, p) >= Along(y, p)
  <2> DEFINE A == {K - 1 - Along(x, p) : x \in S}
  <2>1. A \in SUBSET Nat /\ A # {}
    BY <1>1
  <2>2. PICK a \in A : \A b \in A : a <= b
    <3> HIDE DEF A
    <3> QED
      BY <2>1, Least
  <2>3. PICK x \in S : a = K - 1 - Along(x, p)
    BY <2>2
  <2>4. ASSUME NEW y \in S PROVE Along(x, p) >= Along(y, p)
    <3>1. K - 1 - Along(x, p) <= K - 1 - Along(y, p)
      BY <2>2, <2>3
    <3> QED
      BY <1>1, <3>1, KAssumption
  <2> QED
    BY <2>4
<1> QED
  BY <1>2, <1>3

(* The routers of the mesh from r on. *)
Line(r, p) == {r} \cup Ahead(r, p)

LEMMA LineStep ==
  ASSUME NEW r \in Router, NEW p \in Port, NEW s \in Line(r, p)
  PROVE  /\ s \in Router
         /\ ~Boundary(s, p) => /\ Nbr(s, p) \in Ahead(r, p)
                               /\ Along(Nbr(s, p), p) = Along(s, p) + 1
<1>1. s \in Router /\ Ahead(s, p) \subseteq Ahead(r, p)
  BY AheadAlong DEF Line
<1> QED
  BY <1>1, AlongType

(* There is at most one downstream router. *)
LEMMA DownstreamUnique ==
  ASSUME NEW r \in Router, NEW p \in Port, NEW t \in Downstream(r, p), NEW u \in Downstream(r, p)
  PROVE  u = t
<1>1. t \in Ahead(r, p) /\ u \in Ahead(r, p) /\ power[t] # "off" /\ power[u] # "off"
  BY DEF Downstream
<1>2. t \notin Ahead(u, p) /\ u \notin Ahead(t, p)
  BY <1>1 DEF Downstream
<1>3. ~(Along(t, p) > Along(u, p)) /\ ~(Along(u, p) > Along(t, p))
  BY <1>1, <1>2, AheadAlong
<1>4. t \in Router /\ u \in Router
  BY <1>1, AheadAlong
<1>5. Along(t, p) = Along(u, p)
  BY <1>3, <1>4, AlongType, KAssumption
<1> QED
  BY <1>1, <1>5, AheadAlong

(* Without a downstream router, everybody ahead is off. *)
LEMMA NobodyThere ==
  ASSUME NEW r \in Router, NEW p \in Port, Downstream(r, p) = {}
  PROVE  \A s \in Ahead(r, p) : power[s] = "off"
<1> DEFINE Up == {s \in Ahead(r, p) : power[s] # "off"}
<1>1. SUFFICES ASSUME Up # {} PROVE FALSE
  OBVIOUS
<1>2. Up \in SUBSET Router
  BY AheadAlong
<1>3. PICK x \in Up : \A y \in Up : Along(x, p) <= Along(y, p)
  BY <1>1, <1>2, Extremes
<1>4. ASSUME NEW s \in Ahead(r, p), x \in Ahead(s, p) PROVE power[s] = "off"
  <2>1. Along(x, p) > Along(s, p)
    BY <1>3, <1>4, AheadAlong
  <2>2. Along(x, p) \in Int /\ Along(s, p) \in Int
    BY <1>2, <1>3, <1>4, AheadAlong, AlongType
  <2> QED
    BY <1>3, <1>4, <2>1, <2>2
<1> QED
  BY <1>3, <1>4 DEF Downstream

(* No news on the stretch: each router on it agrees with the next. *)
LEMMA StretchTells ==
  ASSUME KInv, phase = "read", NEW r \in Router, NEW p \in Port, ~Informing(r, p),
         NEW s \in Line(r, p), ~Boundary(s, p), Nbr(s, p) \in Stretch(r, p)
  PROVE  Agree(Known(s, p), Shown(Nbr(s, p), p))
<1>1. s \in Router /\ p \in MeshPorts(s)
  BY LineStep, PortType
<1>2. wire[Nbr(s, p)][Opp(p)].new = "none" /\ avail[Nbr(s, p)][Opp(p)].new = "none"
  BY DEF Informing
<1> QED
  BY <1>1, <1>2, LinkTells

LEMMA KnowsNobody ==
  ASSUME KInv, phase = "read", NEW r \in Router, NEW p \in Port, ~Informing(r, p),
         Downstream(r, p) = {}
  PROVE  down[r][p] = "off"
<1> DEFINE Bad == {s \in Line(r, p) : down[s][p] # "off"}
<1>1. SUFFICES ASSUME Bad # {} PROVE FALSE
  BY DEF Line
<1>2. Bad \in SUBSET Router
  BY LineStep
<1>3. PICK s \in Bad : \A y \in Bad : Along(s, p) >= Along(y, p)
  BY <1>1, <1>2, Extremes
<1>4. ~Boundary(s, p)
  BY <1>2, <1>3, PortType DEF KInv, Edge
<1> DEFINE q == Nbr(s, p)
<1>5. q \in Ahead(r, p) /\ Along(q, p) = Along(s, p) + 1
  BY <1>3, <1>4, LineStep
<1>6. power[q] = "off"
  BY <1>5, NobodyThere
<1>7. q \in Stretch(r, p)
  BY <1>5 DEF Stretch
<1>8. Agree(Known(s, p), Known(q, p))
  <2>1. Agree(Known(s, p), Shown(q, p))
    BY <1>3, <1>4, <1>7, StretchTells
  <2> QED
    BY <1>6, <2>1 DEF Shown
<1>9. q \in Bad
  BY <1>3, <1>5, <1>8 DEF Agree, Known, Line
<1>10. Along(s, p) \in Int
  BY <1>2, <1>3, AlongType
<1> HIDE DEF Bad, q
<1> QED
  BY <1>3, <1>5, <1>9, <1>10

LEMMA KnowsDownstream ==
  ASSUME KInv, phase = "read", NEW r \in Router, NEW p \in Port, ~Informing(r, p),
         NEW t \in Downstream(r, p)
  PROVE  Agree(Known(r, p), [down |-> power[t], logical |-> t])
<1> DEFINE k   == [down |-> power[t], logical |-> t]
           Bad == {s \in Line(r, p) : Along(s, p) < Along(t, p) /\ ~Agree(Known(s, p), k)}
<1>0. t \in Ahead(r, p) /\ t \in Router /\ Along(t, p) > Along(r, p)
  BY AheadAlong DEF Downstream
<1>1. SUFFICES ASSUME Bad # {} PROVE FALSE
  <2>1. r \in Line(r, p) /\ Along(r, p) < Along(t, p)
    BY <1>0, AlongType DEF Line
  <2> QED
    BY <2>1
<1>2. Bad \in SUBSET Router
  BY LineStep
<1>3. PICK s \in Bad : \A y \in Bad : Along(s, p) >= Along(y, p)
  BY <1>1, <1>2, Extremes
<1>4. /\ Along(s, p) < Along(t, p) /\ Along(t, p) <= K - 1
      /\ Along(s, p) \in Int /\ Along(t, p) \in Int /\ K \in Int
  BY <1>0, <1>2, <1>3, AlongType, KAssumption
<1>5. ~Boundary(s, p)
  <2>1. s \in Router /\ Along(s, p) # K - 1
    BY <1>2, <1>3, <1>4
  <2> QED
    BY <2>1, AlongType
<1> DEFINE q == Nbr(s, p)
<1>6. q \in Ahead(r, p) /\ Along(q, p) = Along(s, p) + 1
  BY <1>3, <1>5, LineStep
<1>7. q \in Stretch(r, p)
  <2>1. q \notin Ahead(t, p)
    <3>1. ~(Along(q, p) > Along(t, p))
      BY <1>4, <1>6
    <3> HIDE DEF q
    <3> QED
      BY <1>0, <1>6, <3>1, AheadAlong
  <2>2. \A u \in Downstream(r, p) : u = t
    BY DownstreamUnique
  <2> QED
    BY <1>6, <2>1, <2>2 DEF Stretch
<1>8. Agree(Known(s, p), Shown(q, p))
  BY <1>3, <1>5, <1>7, StretchTells
<1>9. Agree(Shown(q, p), k)
  <2>1. CASE Along(q, p) = Along(t, p)
    <3>1. q = t
      <4> HIDE DEF q
      <4> QED
        BY <1>0, <1>6, <2>1, AheadAlong
    <3>2. Shown(q, p) = k
      BY <3>1 DEF Shown, Downstream
    <3> QED
      BY <3>2, AgreeReflexive
  <2>2. CASE Along(q, p) # Along(t, p)
    <3>1. Along(q, p) < Along(t, p)
      BY <1>4, <1>6, <2>2
    <3>2. t \in Ahead(q, p)
      <4>1. Along(t, p) > Along(q, p)
        BY <1>4, <1>6, <3>1
      <4> HIDE DEF q
      <4> QED
        BY <1>0, <1>6, <4>1, AheadAlong
    <3>3. power[q] = "off"
      BY <1>6, <3>2 DEF Downstream
    <3>4. q \notin Bad
      <4> HIDE DEF Bad, q
      <4> QED
        BY <1>3, <1>4, <1>6
    <3>5. Agree(Known(q, p), k)
      BY <1>6, <3>1, <3>4 DEF Line
    <3> QED
      BY <3>3, <3>5 DEF Shown
  <2> QED
    BY <2>1, <2>2
<1> HIDE DEF k, q
<1>10. Agree(Known(s, p), k)
  BY <1>8, <1>9, AgreeTransitive
<1> QED
  BY <1>3, <1>10

-----------------------------------------------------------------------------
(* The invariant holds forever: what a router believes of a direction      *)
(* becomes, with the handshakes that _HandshakeEvaluate has still to read  *)
(* from its neighbour's output queue and channel, what that neighbour has  *)
(* to show, itself or the router known beyond it.                          *)
THEOREM BeliefsFollow == Spec => []KInv
  BY InitKInv, NextKInv, PTL DEF Spec

(* The variables of FLOVRouter and of its handshake channels keep their    *)
(* types: in particular, the relays of _HandshakeEvaluate and the          *)
(* announcements of PowerStateEvaluate are well-formed handshakes.         *)
THEOREM FlovTypeCorrect == Spec => []TypeOK
<1>1. KInv => TypeOK
  BY DEF KInv
<1> QED
  BY <1>1, BeliefsFollow, PTL

(* Through any number of routers that are off, _downstream_states holds    *)
(* the state of the downstream router, except while _HandshakeEvaluate has *)
(* an announcement between the two to relay or to read.                    *)
THEOREM DownstreamIsKnown == Spec => []DownIsCurrent
<1>1. ASSUME KInv, phase = "read", NEW r \in Router, NEW p \in Port
      PROVE  \/ Informing(r, p)
             \/ Downstream(r, p) = {} /\ down[r][p] = "off"
             \/ \E q \in Downstream(r, p) : down[r][p] = power[q]
  <2>1. CASE ~Informing(r, p) /\ Downstream(r, p) = {}
    BY <1>1, <2>1, KnowsNobody
  <2>2. ASSUME ~Informing(r, p), NEW t \in Downstream(r, p) PROVE down[r][p] = power[t]
    BY <1>1, <2>2, KnowsDownstream DEF Agree, Known
  <2> QED
    BY <2>1, <2>2
<1>2. KInv => DownIsCurrent
  BY <1>1 DEF DownIsCurrent
<1> QED
  BY <1>2, BeliefsFollow, PTL

(* Likewise _logical_neighbors names the downstream router whenever its    *)
(* pipeline works and no announcement is between the two: the router whose *)
(* credits and packets _HandshakeEvaluate makes this one count with.       *)
THEOREM LogicalIsKnown == Spec => []LogicalIsCurrent
<1>1. ASSUME KInv, phase = "read", NEW r \in Router, NEW p \in Port, ~Informing(r, p),
             NEW t \in Downstream(r, p), power[t] \in Idle
      PROVE  logical[r][p] = t
  BY <1>1, KnowsDownstream DEF Agree, Known
<1>2. KInv => LogicalIsCurrent
  BY <1>1 DEF LogicalIsCurrent
<1> QED
  BY <1>2, BeliefsFollow, PTL

-----------------------------------------------------------------------------
(* Consent, as long as nobody wakes up. *)

NoWakeup == \A r \in Router : power[r] # "wakeup"

(* The handshake in a slot of the channel that leaves s by port d, from    *)
(* its output (0) to the output queue of s (2).  What is at the output has *)
(* been read once the phase "read" is over.                                *)
Slot(s, k, d) ==
  IF k = 0 THEN IF phase = "read" THEN avail[s][d] ELSE NoMsg
  ELSE IF k = 1 THEN wire[s][d] ELSE out[s][d]

(* How far from the edge behind u a slot is, in the direction p: a router  *)
(* that is off moves a handshake on to its own queue at the same place.    *)
At(s, k, p) == 2 * Along(s, p) + k

(* The handshakes on the stretch to u at its port p, with their places.    *)
Way(u, p) ==
  {e \in UNION {{[msg |-> Slot(s, k, Opp(p)), at |-> At(s, k, p)] : k \in 0 .. 2} : s \in Stretch(u, p)} :
     e.msg # NoMsg}

(* The places of the flits on the stretch to u. *)
Flits(u, p) ==
  {At(s, 0, p) : s \in {t \in Stretch(u, p) : <<t, Opp(p)>> \in flitAvail}}
    \cup {At(s, 1, p) : s \in {t \in Stretch(u, p) : <<t, Opp(p)>> \in flitWire}}

Hears(u, p) == \E e \in Way(u, p) : e.msg.src # "none"

(* g has answered the drain of u and kept silent since: nothing it sent    *)
(* follows the place x.                                                    *)
Agreed(u, p, g, x) ==
  /\ power[g] = "on" /\ Opp(p) \in sent[g] /\ <<g, Opp(p)>> \notin active /\ ~Hears(g, Opp(p))
  /\ \A e \in Way(u, p) : e.at <= x
  /\ \A y \in Flits(u, p) : y < x

(* A handshake that a router who knows the state d may meet, and what it   *)
(* says: the assertions of _HandshakeEvaluate without wake-ups.            *)
Legal(m, d) ==
  /\ m.src \in {"none", "on", "draining", "off"}
  /\ m.src = "none" <=> m.new = "none"
  /\ m.src = "on" => m.new = "on" /\ d = "draining"
  /\ m.src = "draining" => m.new = "draining" /\ d = "on"
  /\ m.src = "off" => m.new \in {"on", "off"} /\ d = "draining"

LegalInv(r, p) ==
  /\ down[r][p] \in {"on", "draining", "off"}
  /\ Legal(Arrived(r, p), down[r][p])
  /\ Legal(Coming(r, p), Known1(r, p).down)
  /\ Legal(Queued(r, p), Known2(r, p).down)

(* Whose change of state the channel from n brings, in the direction p. *)
By(m, n, p) == m.src # "none" => m.id = n \/ m.id \in Ahead(n, p)

IdInv(r, p) ==
  By(Arrived(r, p), Nbr(r, p), p) /\ By(Coming(r, p), Nbr(r, p), p) /\ By(Queued(r, p), Nbr(r, p), p)

(* What _neighbor_states says of the neighbour n once m has been read. *)
Noted(m, n, b)  == IF m.new # "none" /\ m.id = n THEN m.src ELSE b
Noted1(r, p)    == Noted(Arrived(r, p), Nbr(r, p), nbr[r][p])
Noted2(r, p)    == Noted(Coming(r, p), Nbr(r, p), Noted1(r, p))
Noted3(r, p)    == Noted(Queued(r, p), Nbr(r, p), Noted2(r, p))

(* A neighbour that is not off has nobody else's news to tell. *)
Speaks(m, n, b) == m.new # "none" /\ b # "off" => m.id = n

NbrInv(r, p) ==
  /\ nbr[r][p] # "off" => down[r][p] = nbr[r][p]
  /\ Speaks(Arrived(r, p), Nbr(r, p), nbr[r][p])
  /\ Speaks(Coming(r, p), Nbr(r, p), Noted1(r, p))
  /\ Speaks(Queued(r, p), Nbr(r, p), Noted2(r, p))
  /\ Noted3(r, p) = power[Nbr(r, p)]

(* A router that drains has seen to it that no neighbour with the higher   *)
(* priority does.                                                          *)
EarlyInv(r) ==
  phase # "power" /\ power[r] = "draining" => \A p \in {West, North} : down[r][p] # "draining"

(* Who drains is gateable and waits for nobody; a router without work, or  *)
(* that is off, has no packet to send.                                     *)
StartInv(r) ==
  /\ phase = "eval" /\ power[r] # "off" =>
       \A p \in Port : out[r][p].src = "draining" => down[r][p] # "draining"
  /\ power[r] # "on" => r \in Gateable
  /\ \A p \in Port : <<r, p>> \in active => power[r] # "off" /\ (r \in Gateable => r \in occupied)

(* That the downstream router went off comes before any other news, and to *)
(* a router that has answered it; drains come in the order of their hids.  *)
NewsInv(u, p) ==
  \A e \in Way(u, p) :
    /\ e.msg.src = "off" => power[u] = "on" /\ p \in sent[u] /\ down[u][p] = "draining"
    /\ e.msg.src = "draining" => \E g \in Downstream(u, p) : e.msg.hid <= reqHid[g][Opp(p)]
    /\ e.msg.src # "none" => \A f \in Way(u, p) : f.at > e.at =>
         /\ f.msg.src # "off"
         /\ e.msg.src = "draining" /\ f.msg.src = "draining" => e.msg.hid < f.msg.hid

(* An answer that is due is due to the last drain read, and later drains   *)
(* have later hids.                                                        *)
RespInv(u, p) ==
  down[u][p] = "draining" /\ p \notin sent[u] =>
    /\ \E g \in Downstream(u, p) : respHid[u][p] <= reqHid[g][Opp(p)]
    /\ \A e \in Way(u, p) : e.msg.src = "draining" => respHid[u][p] < e.msg.hid

(* The drain of the downstream router has the higher priority. *)
Overruled(u, p) == p \in {West, North} /\ phase = "power" /\ down[u][p] = "draining"

(* An answer to this drain of u means what it says, unless u is about to   *)
(* find that the router which gave it drains first.                        *)
DoneInv(u, p) ==
  \A e \in Way(u, p) : e.msg.done =>
    /\ e.msg.hid <= reqHid[u][p]
    /\ power[u] = "draining" /\ e.msg.hid = reqHid[u][p] =>
         \/ \E g \in Downstream(u, p) : Agreed(u, p, g, e.at)
         \/ Overruled(u, p)
         \/ p \in {West, North} /\ \E f \in Way(u, p) : f.msg.src = "draining" /\ f.at <= e.at

TagInv(u, p) ==
  power[u] = "draining" /\ p \in tags[u] =>
    \A g \in Downstream(u, p) : Agreed(u, p, g, 0) \/ Overruled(u, p)

(* Whatever is still on a stretch without a downstream router was sent     *)
(* before the last one went off.                                           *)
GoneInv(u, p) ==
  Downstream(u, p) = {} =>
    \A e \in Way(u, p) : \E f \in Way(u, p) : f.msg.src = "off" /\ f.at >= e.at

Local(r)    == EarlyInv(r) /\ StartInv(r)
Link(r, p)  == LegalInv(r, p) /\ IdInv(r, p) /\ NbrInv(r, p)
Path(u, p)  == NewsInv(u, p) /\ RespInv(u, p) /\ DoneInv(u, p) /\ TagInv(u, p) /\ GoneInv(u, p)

ConsentInv ==
  /\ NoWakeup
  /\ \A r \in Router : Local(r)
  /\ \A r \in Router : \A p \in MeshPorts(r) : Link(r, p)
  /\ \A u \in Router : power[u] # "off" => \A p \in MeshPorts(u) : Path(u, p)

-----------------------------------------------------------------------------
(* The stretch of routers between two that are not off, seen from both     *)
(* ends.                                                                   *)

LEMMA OppType ==
  ASSUME NEW p \in Port
  PROVE  /\ Opp(p) \in Port /\ Opp(Opp(p)) = p
         /\ p \notin {West, North} => Opp(p) \in {West, North}
         /\ p \in {West, North} => Opp(p) \notin {West, North}
  BY DEF Port, Opp, West, North

LEMMA AlongBack ==
  ASSUME NEW r \in Router, NEW p \in Port
  PROVE  Along(r, p) \in Int /\ Along(r, Opp(p)) = K - 1 - Along(r, p)
<1>1. Row(r) \in Int /\ Col(r) \in Int /\ K \in Int
  BY KAssumption DEF Router, Coord, Row, Col
<1>2. p = 0 \/ p = 1 \/ p = 2 \/ p = 3
  BY DEF Port
<1> QED
  BY <1>1, <1>2 DEF Along, Opp, East, West, South, North

LEMMA AheadBack ==
  ASSUME NEW r \in Router, NEW p \in Port, NEW s \in Ahead(r, p)
  PROVE  /\ s \in Router /\ r \in Ahead(s, Opp(p))
         /\ ~Boundary(s, Opp(p)) /\ ~Boundary(Nbr(s, Opp(p)), p)
         /\ Nbr(s, Opp(p)) \in Line(r, p) /\ Nbr(s, Opp(p)) \in Router
         /\ Along(Nbr(s, Opp(p)), p) = Along(s, p) - 1
         /\ Nbr(Nbr(s, Opp(p)), p) = s
<1> USE DEF Along, Ahead, East, West, South, North, Opp, Boundary, Nbr, Succ, Pred, Line
<1>0. PICK i \in Coord, j \in Coord : r = <<i, j>>
  BY DEF Router
<1>1. s \in Router
  OBVIOUS
<1>2. PICK a \in Coord, b \in Coord : s = <<a, b>>
  BY <1>1 DEF Router
<1>3. /\ i \in Int /\ j \in Int /\ a \in Int /\ b \in Int /\ K \in Int
      /\ i >= 0 /\ j >= 0 /\ a >= 0 /\ b >= 0 /\ i <= K - 1 /\ j <= K - 1 /\ a <= K - 1 /\ b <= K - 1
  BY KAssumption DEF Coord
<1>4. Row(r) = i /\ Col(r) = j /\ Row(s) = a /\ Col(s) = b
  BY <1>0, <1>2 DEF Row, Col
<1>5. \A x \in Router : \A y, z : x = <<y, z>> => Row(x) = y /\ Col(x) = z
  BY DEF Row, Col
<1>6. p = 0 \/ p = 1 \/ p = 2 \/ p = 3
  BY DEF Port
<1>7. CASE p = 0
  <2>1. a = i /\ b > j /\ Nbr(s, Opp(p)) = <<a, b - 1>> /\ <<a, b - 1>> \in Router
    BY <1>2, <1>3, <1>4, <1>7 DEF Router, Coord
  <2>2. Row(<<a, b - 1>>) = a /\ Col(<<a, b - 1>>) = b - 1
    BY DEF Row, Col
  <2> QED
    BY <1>0, <1>1, <1>2, <1>3, <1>4, <1>7, <2>1, <2>2
<1>8. CASE p = 1
  <2>1. a = i /\ b < j /\ Nbr(s, Opp(p)) = <<a, b + 1>> /\ <<a, b + 1>> \in Router
    BY <1>2, <1>3, <1>4, <1>8 DEF Router, Coord
  <2>2. Row(<<a, b + 1>>) = a /\ Col(<<a, b + 1>>) = b + 1
    BY DEF Row, Col
  <2> QED
    BY <1>0, <1>1, <1>2, <1>3, <1>4, <1>8, <2>1, <2>2
<1>9. CASE p = 2
  <2>1. b = j /\ a > i /\ Nbr(s, Opp(p)) = <<a - 1, b>> /\ <<a - 1, b>> \in Router
    BY <1>2, <1>3, <1>4, <1>9 DEF Router, Coord
  <2>2. Row(<<a - 1, b>>) = a - 1 /\ Col(<<a - 1, b>>) = b
    BY DEF Row, Col
  <2> QED
    BY <1>0, <1>1, <1>2, <1>3, <1>4, <1>9, <2>1, <2>2
<1>10. CASE p = 3
  <2>1. b = j /\ a < i /\ Nbr(s, Opp(p)) = <<a + 1, b>> /\ <<a + 1, b>> \in Router
    BY <1>2, <1>3, <1>4, <1>10 DEF Router, Coord
  <2>2. Row(<<a + 1, b>>) = a + 1 /\ Col(<<a + 1, b>>) = b
    BY DEF Row, Col
  <2> QED
    BY <1>0, <1>1, <1>2, <1>3, <1>4, <1>10, <2>1, <2>2
<1> QED
  BY <1>6, <1>7, <1>8, <1>9, <1>10

(* Beyond any router that is not off there is a downstream router at or    *)
(* before it.                                                              *)
LEMMA NearestUp ==
  ASSUME NEW r \in Router, NEW p \in Port, NEW x \in Ahead(r, p), power[x] # "off"
  PROVE  \E t \in Downstream(r, p) : Along(t, p) <= Along(x, p)
<1> DEFINE Up == {s \in Ahead(r, p) : power[s] # "off"}
<1>1. Up \in SUBSET Router /\ x \in Up
  BY AheadAlong
<1>2. PICK t \in Up : \A y \in Up : Along(t, p) <= Along(y, p)
  BY <1>1, Extremes
<1>3. ASSUME NEW s \in Ahead(r, p), t \in Ahead(s, p) PROVE power[s] = "off"
  <2>1. Along(t, p) > Along(s, p)
    BY <1>2, <1>3, AheadAlong
  <2>2. Along(t, p) \in Int /\ Along(s, p) \in Int
    BY <1>1, <1>2, <1>3, AheadAlong, AlongBack
  <2> QED
    BY <1>2, <1>3, <2>1, <2>2
<1>4. t \in Downstream(r, p)
  BY <1>2, <1>3 DEF Downstream
<1> QED
  BY <1>1, <1>2, <1>4

(* The stretch from r: routers that are off, and the downstream router.    *)
LEMMA StretchIs ==
  ASSUME NEW r \in Router, NEW p \in Port
  PROVE  /\ Stretch(r, p) \subseteq Ahead(r, p) /\ Stretch(r, p) \subseteq Router
         /\ Downstream(r, p) \subseteq Stretch(r, p)
         /\ \A s \in Stretch(r, p) : power[s] # "off" <=> s \in Downstream(r, p)
         /\ \A g \in Downstream(r, p) : /\ power[g] # "off"
                                        /\ \A s \in Ahead(r, p) : s \in Stretch(r, p) <=> Along(s, p) <= Along(g, p)
         /\ Downstream(r, p) = {} => Stretch(r, p) = Ahead(r, p)
<1>1. Stretch(r, p) \subseteq Ahead(r, p) /\ Stretch(r, p) \subseteq Router
  BY AheadAlong DEF Stretch
<1>2. ASSUME NEW g \in Downstream(r, p), NEW s \in Ahead(r, p)
      PROVE  s \in Stretch(r, p) <=> Along(s, p) <= Along(g, p)
  <2>1. g \in Ahead(r, p) /\ g \in Router /\ s \in Router
    BY AheadAlong DEF Downstream
  <2>2. s \in Stretch(r, p) <=> s \notin Ahead(g, p)
    BY DownstreamUnique DEF Stretch
  <2>3. s \in Ahead(g, p) <=> Along(s, p) > Along(g, p)
    BY <2>1, AheadAlong
  <2> QED
    BY <2>1, <2>2, <2>3, AlongBack
<1>3. ASSUME NEW g \in Downstream(r, p) PROVE g \in Stretch(r, p) /\ power[g] # "off"
  <2>1. g \in Ahead(r, p) /\ g \in Router
    BY AheadAlong DEF Downstream
  <2> QED
    BY <1>2, <2>1, AlongBack DEF Downstream
<1>4. ASSUME NEW s \in Stretch(r, p), power[s] # "off" PROVE s \in Downstream(r, p)
  <2>1. s \in Ahead(r, p) /\ s \in Router
    BY <1>1
  <2>2. PICK t \in Downstream(r, p) : Along(t, p) <= Along(s, p)
    BY <1>4, <2>1, NearestUp
  <2>3. Along(s, p) <= Along(t, p)
    BY <1>2, <2>1
  <2>4. t \in Ahead(r, p) /\ t \in Router
    BY AheadAlong DEF Downstream
  <2>5. Along(s, p) = Along(t, p)
    BY <2>1, <2>2, <2>3, <2>4, AlongBack
  <2>6. s = t
    BY <2>1, <2>4, <2>5, AheadAlong
  <2> QED
    BY <2>6
<1>5. Downstream(r, p) = {} => Stretch(r, p) = Ahead(r, p)
  BY DEF Stretch
<1> QED
  BY <1>1, <1>2, <1>3, <1>4, <1>5

(* Towards u, the stretch goes on to u or to another router that is off. *)
LEMMA StretchBack ==
  ASSUME NEW u \in Router, NEW p \in Port, NEW s \in Stretch(u, p)
  PROVE  /\ s \in Router /\ ~Boundary(s, Opp(p)) /\ Nbr(s, Opp(p)) \in Router
         /\ ~Boundary(Nbr(s, Opp(p)), p) /\ Nbr(Nbr(s, Opp(p)), p) = s
         /\ Along(Nbr(s, Opp(p)), p) = Along(s, p) - 1
         /\ Nbr(s, Opp(p)) = u \/ (Nbr(s, Opp(p)) \in Stretch(u, p) /\ power[Nbr(s, Opp(p))] = "off")
<1> DEFINE n == Nbr(s, Opp(p))
<1>1. s \in Ahead(u, p)
  BY StretchIs
<1>2. /\ s \in Router /\ ~Boundary(s, Opp(p)) /\ n \in Line(u, p) /\ n \in Router
      /\ ~Boundary(n, p) /\ Nbr(n, p) = s /\ Along(n, p) = Along(s, p) - 1
  BY <1>1, AheadBack
<1> HIDE DEF n
<1>3. ASSUME n # u PROVE n \in Stretch(u, p) /\ power[n] = "off"
  <2>1. n \in Ahead(u, p)
    BY <1>2, <1>3 DEF Line
  <2>2. Along(n, p) \in Int /\ Along(s, p) \in Int
    BY <1>2, AlongBack
  <2>3. ASSUME NEW g \in Downstream(u, p) PROVE n # g /\ n \notin Ahead(g, p)
    <3>1. g \in Ahead(u, p) /\ Along(s, p) <= Along(g, p)
      BY <1>1, StretchIs DEF Downstream
    <3>2. Along(g, p) \in Int /\ ~(Along(n, p) > Along(g, p)) /\ Along(n, p) # Along(g, p)
      BY <1>2, <2>2, <3>1, AheadAlong, AlongBack
    <3> QED
      BY <2>1, <3>1, <3>2, AheadAlong
  <2>4. n \in Stretch(u, p)
    BY <2>1, <2>3 DEF Stretch
  <2> QED
    BY <2>3, <2>4, StretchIs
<1> QED
  BY <1>2, <1>3 DEF n

(* Away from u, it goes on through the routers that are off. *)
LEMMA StretchOn ==
  ASSUME NEW u \in Router, NEW p \in Port, NEW s, s = u \/ (s \in Stretch(u, p) /\ power[s] = "off"),
         ~Boundary(s, p)
  PROVE  Nbr(s, p) \in Stretch(u, p) /\ s \in Router /\ Along(Nbr(s, p), p) = Along(s, p) + 1
<1> DEFINE n == Nbr(s, p)
<1>1. s \in Line(u, p) /\ s \in Router
  BY StretchIs DEF Line
<1>2. n \in Ahead(u, p) /\ Along(n, p) = Along(s, p) + 1
  BY <1>1, LineStep
<1> HIDE DEF n
<1>3. ASSUME NEW g \in Downstream(u, p) PROVE n \notin Ahead(g, p)
  <2>1. g \in Ahead(u, p) /\ g \in Router /\ power[g] # "off"
    BY AheadAlong DEF Downstream
  <2>2. Along(s, p) \in Int /\ Along(g, p) \in Int
    BY <1>1, <2>1, AlongBack
  <2>3. Along(s, p) < Along(g, p)
    <3>1. CASE s = u
      BY <2>1, <3>1, AheadAlong
    <3>2. CASE s \in Stretch(u, p) /\ power[s] = "off"
      <4>1. s \in Ahead(u, p) /\ Along(s, p) <= Along(g, p)
        BY <3>2, StretchIs
      <4>2. Along(s, p) # Along(g, p)
        BY <2>1, <3>2, <4>1, AheadAlong
      <4> QED
        BY <2>2, <4>1, <4>2
    <3> QED
      BY <3>1, <3>2
  <2>4. ~(Along(n, p) > Along(g, p))
    BY <1>2, <2>2, <2>3
  <2> QED
    BY <1>2, <2>1, <2>4, AheadAlong
<1>4. n \in Stretch(u, p)
  BY <1>2, <1>3 DEF Stretch
<1> QED
  BY <1>1, <1>2, <1>4 DEF n

(* The two ends see each other. *)
LEMMA Facing ==
  ASSUME NEW u \in Router, power[u] # "off", NEW p \in Port, NEW g \in Downstream(u, p)
  PROVE  /\ g \in Router /\ power[g] # "off" /\ u \in Downstream(g, Opp(p))
         /\ p \in MeshPorts(u) /\ Opp(p) \in MeshPorts(g) /\ Opp(p) \in Port /\ Opp(Opp(p)) = p
         /\ Along(u, p) < Along(g, p) /\ g # u
<1>1. /\ g \in Ahead(u, p) /\ g \in Router /\ power[g] # "off" /\ Along(g, p) > Along(u, p)
      /\ \A s \in Ahead(u, p) : g \in Ahead(s, p) => power[s] = "off"
  BY AheadAlong DEF Downstream
<1>2. Opp(p) \in Port /\ Opp(Opp(p)) = p
  BY OppType
<1>3. u \in Ahead(g, Opp(p)) /\ ~Boundary(g, Opp(p))
  BY <1>1, AheadBack
<1>4. ASSUME NEW s \in Ahead(g, Opp(p)), u \in Ahead(s, Opp(p)) PROVE power[s] = "off"
  <2>1. s \in Router /\ g \in Ahead(s, p)
    BY <1>1, <1>2, AheadBack
  <2>2. s \in Ahead(u, p)
    BY <1>2, <1>4, <2>1, AheadBack
  <2> QED
    BY <1>1, <2>1, <2>2
<1>5. ~Boundary(u, p)
  <2>1. Along(u, p) \in 0 .. K - 1 /\ Along(g, p) \in 0 .. K - 1 /\ K \in Int
    BY <1>1, AlongType, KAssumption
  <2> QED
    BY <1>1, <2>1, AlongType
<1>6. u \in Downstream(g, Opp(p))
  BY <1>3, <1>4 DEF Downstream
<1>7. Along(u, p) \in Int /\ Along(g, p) \in Int
  BY <1>1, AlongBack
<1> QED
  BY <1>1, <1>2, <1>3, <1>5, <1>6, <1>7, PortType

(* The routers before the downstream router are off. *)
LEMMA Between ==
  ASSUME NEW u \in Router, NEW p \in Port, NEW g \in Downstream(u, p),
         NEW s \in Line(u, p), Along(s, p) < Along(g, p)
  PROVE  /\ s = u \/ (s \in Stretch(u, p) /\ power[s] = "off")
         /\ s \in Router /\ ~Boundary(s, p) /\ p \in MeshPorts(s)
         /\ Nbr(s, p) \in Stretch(u, p) /\ Along(Nbr(s, p), p) = Along(s, p) + 1
         /\ Nbr(s, p) = g \/ (Along(Nbr(s, p), p) < Along(g, p) /\ power[Nbr(s, p)] = "off")
<1>1. g \in Ahead(u, p) /\ g \in Router
  BY AheadAlong DEF Downstream
<1>2. s \in Router
  BY LineStep
<1>3. /\ Along(s, p) \in 0 .. K - 1 /\ Along(g, p) \in 0 .. K - 1 /\ K \in Int
  BY <1>1, <1>2, AlongType, KAssumption
<1>4. ~Boundary(s, p) /\ p \in MeshPorts(s)
  BY <1>2, <1>3, AlongType, PortType
<1>5. s = u \/ (s \in Stretch(u, p) /\ power[s] = "off")
  <2>1. ASSUME s # u PROVE s \in Stretch(u, p) /\ power[s] = "off"
    <3>1. s \in Ahead(u, p) /\ s # g
      BY <1>3, <2>1 DEF Line
    <3>2. s \in Stretch(u, p)
      BY <1>3, <3>1, StretchIs
    <3> QED
      BY <3>1, <3>2, StretchIs, DownstreamUnique
  <2> QED
    BY <2>1
<1>6. Nbr(s, p) \in Stretch(u, p) /\ Along(Nbr(s, p), p) = Along(s, p) + 1
  BY <1>4, <1>5, StretchOn
<1>7. ASSUME Nbr(s, p) # g PROVE Along(Nbr(s, p), p) < Along(g, p) /\ power[Nbr(s, p)] = "off"
  <2>1. Nbr(s, p) \in Ahead(u, p) /\ Along(Nbr(s, p), p) <= Along(g, p)
    BY <1>6, StretchIs
  <2>2. Along(Nbr(s, p), p) # Along(g, p)
    BY <1>1, <1>7, <2>1, AheadAlong
  <2>3. power[Nbr(s, p)] = "off"
    BY <1>6, <1>7, StretchIs, DownstreamUnique
  <2> QED
    BY <1>3, <1>6, <2>1, <2>2, <2>3
<1> QED
  BY <1>2, <1>4, <1>5, <1>6, <1>7

-----------------------------------------------------------------------------
(* What is on a stretch. *)

LEMMA WayIs ==
  ASSUME NEW u \in Router, NEW p \in Port, NEW e \in Way(u, p)
  PROVE  /\ \E s \in Stretch(u, p) : \E k \in 0 .. 2 :
              e = [msg |-> Slot(s, k, Opp(p)), at |-> At(s, k, p)]
         /\ e.msg # NoMsg /\ e.at \in Int /\ e.at >= 2 * Along(u, p) + 2 /\ e.at > 0
         /\ \A g \in Downstream(u, p) : e.at <= 2 * Along(g, p) + 2
<1>1. PICK s \in Stretch(u, p), k \in 0 .. 2 : e = [msg |-> Slot(s, k, Opp(p)), at |-> At(s, k, p)]
  BY DEF Way
<1>2. s \in Router /\ Along(s, p) > Along(u, p) /\ s \in Ahead(u, p)
  BY StretchIs, AheadAlong
<1>3. Along(s, p) \in Int /\ Along(u, p) \in 0 .. K - 1 /\ K \in Int
  BY <1>2, AlongBack, AlongType, KAssumption
<1>4. e.at = 2 * Along(s, p) + k
  BY <1>1 DEF At
<1>5. e.at \in Int /\ e.at >= 2 * Along(u, p) + 2 /\ e.at > 0
  BY <1>2, <1>3, <1>4
<1>6. ASSUME NEW g \in Downstream(u, p) PROVE e.at <= 2 * Along(g, p) + 2
  <2>1. Along(s, p) <= Along(g, p) /\ g \in Router
    BY <1>2, StretchIs, AheadAlong DEF Downstream
  <2> QED
    BY <1>3, <1>4, <2>1, AlongBack
<1>7. e.msg # NoMsg
  BY DEF Way
<1> QED
  BY <1>1, <1>5, <1>6, <1>7

LEMMA InWay ==
  ASSUME NEW u, NEW p, NEW s \in Stretch(u, p), NEW k \in 0 .. 2, Slot(s, k, Opp(p)) # NoMsg
  PROVE  [msg |-> Slot(s, k, Opp(p)), at |-> At(s, k, p)] \in Way(u, p)
<1> DEFINE e == [msg |-> Slot(s, k, Opp(p)), at |-> At(s, k, p)]
<1>1. e.msg # NoMsg
  OBVIOUS
<1>2. e \in {[msg |-> Slot(s, j, Opp(p)), at |-> At(s, j, p)] : j \in 0 .. 2}
  OBVIOUS
<1> HIDE DEF e
<1>3. e \in Way(u, p)
  BY <1>1, <1>2 DEF Way
<1> QED
  BY <1>3 DEF e

LEMMA FlitsIs ==
  ASSUME NEW u \in Router, NEW p \in Port, NEW y \in Flits(u, p)
  PROVE  /\ y \in Int /\ y >= 2 * Along(u, p) + 2 /\ y > 0
         /\ \A g \in Downstream(u, p) : y <= 2 * Along(g, p) + 1
         /\ \E s \in Stretch(u, p) : \/ y = At(s, 0, p) /\ <<s, Opp(p)>> \in flitAvail
                                     \/ y = At(s, 1, p) /\ <<s, Opp(p)>> \in flitWire
<1>1. PICK s \in Stretch(u, p) : \/ y = At(s, 0, p) /\ <<s, Opp(p)>> \in flitAvail
                                 \/ y = At(s, 1, p) /\ <<s, Opp(p)>> \in flitWire
  BY DEF Flits
<1>2. s \in Router /\ Along(s, p) > Along(u, p) /\ s \in Ahead(u, p)
  BY StretchIs, AheadAlong
<1>3. Along(s, p) \in Int /\ Along(u, p) \in 0 .. K - 1 /\ K \in Int
  BY <1>2, AlongBack, AlongType, KAssumption
<1>4. y = 2 * Along(s, p) \/ y = 2 * Along(s, p) + 1
  BY <1>1, <1>3 DEF At
<1>5. y \in Int /\ y >= 2 * Along(u, p) + 2 /\ y > 0
  BY <1>2, <1>3, <1>4
<1>6. ASSUME NEW g \in Downstream(u, p) PROVE y <= 2 * Along(g, p) + 1
  <2>1. Along(s, p) <= Along(g, p) /\ g \in Router
    BY <1>2, StretchIs, AheadAlong DEF Downstream
  <2> QED
    BY <1>3, <1>4, <2>1, AlongBack
<1> QED
  BY <1>1, <1>5, <1>6

(* The three handshakes of a channel of the stretch. *)
LEMMA LinkWay ==
  ASSUME NEW u \in Router, NEW p \in Port, NEW s \in Router, ~Boundary(s, p), Nbr(s, p) \in Stretch(u, p)
  PROVE  /\ Arrived(s, p) # NoMsg => [msg |-> Arrived(s, p), at |-> At(Nbr(s, p), 0, p)] \in Way(u, p)
         /\ Coming(s, p) # NoMsg => [msg |-> Coming(s, p), at |-> At(Nbr(s, p), 1, p)] \in Way(u, p)
         /\ Queued(s, p) # NoMsg => [msg |-> Queued(s, p), at |-> At(Nbr(s, p), 2, p)] \in Way(u, p)
<1>1. /\ Arrived(s, p) = Slot(Nbr(s, p), 0, Opp(p)) /\ Coming(s, p) = Slot(Nbr(s, p), 1, Opp(p))
      /\ Queued(s, p) = Slot(Nbr(s, p), 2, Opp(p))
  BY DEF Arrived, Arriving, Coming, Queued, Slot
<1> QED
  BY <1>1, InWay

LEMMA AgreedIs ==
  ASSUME NEW u, NEW p, NEW g, NEW x, Agreed(u, p, g, x)
  PROVE  /\ power[g] = "on" /\ Opp(p) \in sent[g] /\ <<g, Opp(p)>> \notin active /\ ~Hears(g, Opp(p))
         /\ \A e \in Way(u, p) : e.at <= x
         /\ \A y \in Flits(u, p) : y < x
  BY DEF Agreed

LEMMA AgreedNow ==
  ASSUME NEW u \in Router, NEW p \in Port, NEW g, Agreed(u, p, g, 0)
  PROVE  Way(u, p) = {} /\ Flits(u, p) = {}
<1>1. ASSUME NEW e \in Way(u, p) PROVE FALSE
  <2>1. e.at <= 0 /\ e.at > 0 /\ e.at \in Int
    BY AgreedIs, WayIs
  <2> QED
    BY <2>1
<1>2. ASSUME NEW y \in Flits(u, p) PROVE FALSE
  <2>1. y < 0 /\ y > 0 /\ y \in Int
    BY AgreedIs, FlitsIs
  <2> QED
    BY <2>1
<1> QED
  BY <1>1, <1>2

-----------------------------------------------------------------------------
(* What routers know, in any phase, of what is not under way. *)

LEMMA AfterLegal ==
  ASSUME NEW m, NEW k, Legal(m, k.down)
  PROVE  /\ m.src = "none" => After(m, k).down = k.down
         /\ k.down = "off" => After(m, k).down = "off"
         /\ m.src # "draining" /\ After(m, k).down = "draining" => m.src = "none" /\ k.down = "draining"
  BY AfterIs DEF Legal

LEMMA LinkKnows ==
  ASSUME KInv, NEW r \in Router, NEW p \in MeshPorts(r), LegalInv(r, p),
         NEW n, n = Nbr(r, p), NEW d, d = IF power[n] = "off" THEN down[n][p] ELSE power[n]
  PROVE  /\ Arrived(r, p).src = "none" /\ Coming(r, p).src = "none" /\ Queued(r, p).src = "none"
              => down[r][p] = d
         /\ down[r][p] = "off" => d = "off"
         /\ /\ d = "draining"
            /\ Arrived(r, p).src # "draining" /\ Coming(r, p).src # "draining" /\ Queued(r, p).src # "draining"
            => /\ Arrived(r, p).src = "none" /\ Coming(r, p).src = "none" /\ Queued(r, p).src = "none"
               /\ down[r][p] = "draining"
<1>1. Known3(r, p).down = d
  <2>1. LinkInv(r, p)
    BY DEF KInv
  <2> QED
    BY <2>1 DEF LinkInv, Agree, Shown, Known
<1>2. Known(r, p).down = down[r][p]
  BY DEF Known
<1>3. /\ Legal(Arrived(r, p), Known(r, p).down) /\ Legal(Coming(r, p), Known1(r, p).down)
      /\ Legal(Queued(r, p), Known2(r, p).down)
  BY <1>2 DEF LegalInv
<1>4. /\ Arrived(r, p).src = "none" => Known1(r, p).down = Known(r, p).down
      /\ Known(r, p).down = "off" => Known1(r, p).down = "off"
      /\ Arrived(r, p).src # "draining" /\ Known1(r, p).down = "draining"
           => Arrived(r, p).src = "none" /\ Known(r, p).down = "draining"
  BY <1>3, AfterLegal DEF Known1
<1>5. /\ Coming(r, p).src = "none" => Known2(r, p).down = Known1(r, p).down
      /\ Known1(r, p).down = "off" => Known2(r, p).down = "off"
      /\ Coming(r, p).src # "draining" /\ Known2(r, p).down = "draining"
           => Coming(r, p).src = "none" /\ Known1(r, p).down = "draining"
  BY <1>3, AfterLegal DEF Known2
<1>6. /\ Queued(r, p).src = "none" => Known3(r, p).down = Known2(r, p).down
      /\ Known2(r, p).down = "off" => Known3(r, p).down = "off"
      /\ Queued(r, p).src # "draining" /\ Known3(r, p).down = "draining"
           => Queued(r, p).src = "none" /\ Known2(r, p).down = "draining"
  BY <1>3, AfterLegal DEF Known3
<1> QED
  BY <1>1, <1>2, <1>4, <1>5, <1>6

Lawful == \A r \in Router : \A p \in MeshPorts(r) : LegalInv(r, p)

LEMMA QuietLink ==
  ASSUME NEW u \in Router, NEW p \in Port, NEW s \in Router, ~Boundary(s, p), Nbr(s, p) \in Stretch(u, p)
  PROVE  /\ ~Hears(u, p) => Arrived(s, p).src = "none" /\ Coming(s, p).src = "none" /\ Queued(s, p).src = "none"
         /\ (\A e \in Way(u, p) : e.msg.src # "draining") =>
              Arrived(s, p).src # "draining" /\ Coming(s, p).src # "draining" /\ Queued(s, p).src # "draining"
<1> DEFINE a == [msg |-> Arrived(s, p), at |-> At(Nbr(s, p), 0, p)]
           c == [msg |-> Coming(s, p), at |-> At(Nbr(s, p), 1, p)]
           q == [msg |-> Queued(s, p), at |-> At(Nbr(s, p), 2, p)]
<1>1. /\ Arrived(s, p) # NoMsg => a \in Way(u, p)
      /\ Coming(s, p) # NoMsg => c \in Way(u, p)
      /\ Queued(s, p) # NoMsg => q \in Way(u, p)
  BY LinkWay
<1>2. a.msg = Arrived(s, p) /\ c.msg = Coming(s, p) /\ q.msg = Queued(s, p)
  OBVIOUS
<1> HIDE DEF a, c, q
<1> QED
  BY <1>1, <1>2, MessageType DEF Hears

LEMMA PathKnows ==
  ASSUME KInv, Lawful, NEW u \in Router, NEW p \in Port, NEW g \in Downstream(u, p), ~Hears(u, p)
  PROVE  down[u][p] = power[g]
<1> DEFINE Bad == {s \in Line(u, p) : Along(s, p) < Along(g, p) /\ down[s][p] # power[g]}
<1>0. g \in Router /\ Along(u, p) < Along(g, p) /\ power[g] # "off"
  <2>1. g \in Ahead(u, p) /\ power[g] # "off"
    BY DEF Downstream
  <2>2. g \in Router /\ Along(g, p) > Along(u, p)
    BY <2>1, AheadAlong
  <2> QED
    BY <2>1, <2>2, AlongBack
<1>1. SUFFICES ASSUME Bad # {} PROVE FALSE
  BY <1>0 DEF Line
<1>2. Bad \in SUBSET Router
  BY LineStep
<1>3. PICK s \in Bad : \A y \in Bad : Along(s, p) >= Along(y, p)
  BY <1>1, <1>2, Extremes
<1> DEFINE n == Nbr(s, p)
<1>4. /\ s \in Router /\ p \in MeshPorts(s) /\ ~Boundary(s, p) /\ n \in Stretch(u, p) /\ Along(n, p) = Along(s, p) + 1
      /\ n = g \/ (Along(n, p) < Along(g, p) /\ power[n] = "off")
  BY <1>3, Between
<1>5. Arrived(s, p).src = "none" /\ Coming(s, p).src = "none" /\ Queued(s, p).src = "none"
  BY <1>4, QuietLink
<1>6. down[s][p] = IF power[n] = "off" THEN down[n][p] ELSE power[n]
  BY <1>4, <1>5, LinkKnows DEF Lawful
<1>7. n \notin Bad
  <2> HIDE DEF n, Bad
  <2>1. Along(s, p) \in Int
    BY <1>4, AlongBack
  <2> QED
    BY <1>3, <1>4, <2>1
<1>8. n \in Line(u, p)
  BY <1>4, StretchIs DEF Line
<1> QED
  BY <1>0, <1>3, <1>4, <1>6, <1>7, <1>8

LEMMA PathNobody ==
  ASSUME KInv, Lawful, NEW u \in Router, NEW p \in Port, Downstream(u, p) = {}, ~Hears(u, p)
  PROVE  down[u][p] = "off"
<1> DEFINE Bad == {s \in Line(u, p) : down[s][p] # "off"}
<1>1. SUFFICES ASSUME Bad # {} PROVE FALSE
  BY DEF Line
<1>2. Bad \in SUBSET Router
  BY LineStep
<1>3. PICK s \in Bad : \A y \in Bad : Along(s, p) >= Along(y, p)
  BY <1>1, <1>2, Extremes
<1> DEFINE n == Nbr(s, p)
<1>4. s \in Router /\ ~Boundary(s, p) /\ p \in MeshPorts(s)
  BY <1>2, <1>3, PortType DEF KInv, Edge
<1>5. n \in Ahead(u, p) /\ Along(n, p) = Along(s, p) + 1
  BY <1>3, <1>4, LineStep
<1>6. power[n] = "off" /\ n \in Stretch(u, p)
  BY <1>5, NobodyThere, StretchIs
<1>7. Arrived(s, p).src = "none" /\ Coming(s, p).src = "none" /\ Queued(s, p).src = "none"
  BY <1>4, <1>6, QuietLink
<1>8. down[s][p] = down[n][p]
  BY <1>4, <1>6, <1>7, LinkKnows DEF Lawful
<1>9. n \notin Bad
  <2> HIDE DEF n, Bad
  <2>1. Along(s, p) \in Int
    BY <1>4, AlongBack
  <2> QED
    BY <1>3, <1>5, <2>1
<1> QED
  BY <1>3, <1>5, <1>8, <1>9 DEF Line

(* Nobody ahead is what a router without one believes. *)
LEMMA OffMeansNobody ==
  ASSUME KInv, Lawful, NEW u \in Router, NEW p \in Port, down[u][p] = "off"
  PROVE  Downstream(u, p) = {}
<1> SUFFICES ASSUME NEW g \in Downstream(u, p) PROVE FALSE
  OBVIOUS
<1> DEFINE Bad == {s \in Line(u, p) : Along(s, p) < Along(g, p) /\ down[s][p] = "off"}
<1>0. g \in Router /\ Along(u, p) < Along(g, p) /\ power[g] # "off"
  <2>1. g \in Ahead(u, p) /\ power[g] # "off"
    BY DEF Downstream
  <2>2. g \in Router /\ Along(g, p) > Along(u, p)
    BY <2>1, AheadAlong
  <2> QED
    BY <2>1, <2>2, AlongBack
<1>1. Bad # {}
  BY <1>0 DEF Line
<1>2. Bad \in SUBSET Router
  BY LineStep
<1>3. PICK s \in Bad : \A y \in Bad : Along(s, p) >= Along(y, p)
  BY <1>1, <1>2, Extremes
<1> DEFINE n == Nbr(s, p)
<1>4. /\ s \in Router /\ p \in MeshPorts(s) /\ ~Boundary(s, p) /\ n \in Stretch(u, p) /\ Along(n, p) = Along(s, p) + 1
      /\ n = g \/ (Along(n, p) < Along(g, p) /\ power[n] = "off")
  BY <1>3, Between
<1>6. (IF power[n] = "off" THEN down[n][p] ELSE power[n]) = "off"
  BY <1>3, <1>4, LinkKnows DEF Lawful
<1>7. n \notin Bad
  <2> HIDE DEF n, Bad
  <2>1. Along(s, p) \in Int
    BY <1>4, AlongBack
  <2> QED
    BY <1>3, <1>4, <2>1
<1>8. n \in Line(u, p)
  BY <1>4, StretchIs DEF Line
<1> QED
  BY <1>0, <1>4, <1>6, <1>7, <1>8

(* Who drains is known to drain, once no drain is announced any more. *)
LEMMA PathDrains ==
  ASSUME KInv, Lawful, NEW u \in Router, NEW p \in Port, NEW g \in Downstream(u, p),
         power[g] = "draining", \A e \in Way(u, p) : e.msg.src # "draining"
  PROVE  down[u][p] = "draining" /\ ~Hears(u, p)
<1> DEFINE Bad == {s \in Line(u, p) : Along(s, p) < Along(g, p) /\ down[s][p] # "draining"}
<1>0. g \in Router /\ Along(u, p) < Along(g, p) /\ Along(g, p) \in Int
  <2>1. g \in Ahead(u, p)
    BY DEF Downstream
  <2>2. g \in Router /\ Along(g, p) > Along(u, p)
    BY <2>1, AheadAlong
  <2> QED
    BY <2>1, <2>2, AlongBack
<1>1. ASSUME NEW s \in Line(u, p), Along(s, p) < Along(g, p),
             Nbr(s, p) = g \/ Nbr(s, p) \notin Bad
      PROVE  /\ Arrived(s, p).src = "none" /\ Coming(s, p).src = "none" /\ Queued(s, p).src = "none"
             /\ down[s][p] = "draining"
  <2> DEFINE n == Nbr(s, p)
  <2>1. /\ s \in Router /\ p \in MeshPorts(s) /\ ~Boundary(s, p) /\ n \in Stretch(u, p)
        /\ n = g \/ (Along(n, p) < Along(g, p) /\ power[n] = "off")
    BY <1>1, Between
  <2>2. n \in Line(u, p)
    BY <2>1, StretchIs DEF Line
  <2>3. (IF power[n] = "off" THEN down[n][p] ELSE power[n]) = "draining"
    BY <1>1, <2>1, <2>2
  <2>4. Arrived(s, p).src # "draining" /\ Coming(s, p).src # "draining" /\ Queued(s, p).src # "draining"
    BY <2>1, QuietLink
  <2> QED
    BY <2>1, <2>3, <2>4, LinkKnows DEF Lawful
<1>2. Bad = {}
  <2> SUFFICES ASSUME Bad # {} PROVE FALSE
    OBVIOUS
  <2>1. Bad \in SUBSET Router
    BY LineStep
  <2>2. PICK s \in Bad : \A y \in Bad : Along(s, p) >= Along(y, p)
    BY <2>1, Extremes
  <2>3. s \in Router /\ Along(Nbr(s, p), p) = Along(s, p) + 1
    BY <2>2, Between
  <2>4. Nbr(s, p) \notin Bad
    <3>1. Along(s, p) \in Int
      BY <2>3, AlongBack
    <3> HIDE DEF Bad
    <3> QED
      BY <2>2, <2>3, <3>1
  <2> QED
    BY <1>1, <2>2, <2>4
<1>3. down[u][p] = "draining"
  BY <1>0, <1>2 DEF Line
<1>4. ASSUME NEW e \in Way(u, p) PROVE e.msg.src = "none"
  <2>1. PICK t \in Stretch(u, p), k \in 0 .. 2 : e = [msg |-> Slot(t, k, Opp(p)), at |-> At(t, k, p)]
    BY WayIs
  <2> DEFINE s == Nbr(t, Opp(p))
  <2>2. /\ t \in Router /\ s \in Router /\ ~Boundary(s, p) /\ Nbr(s, p) = t /\ Along(s, p) = Along(t, p) - 1
        /\ s = u \/ s \in Stretch(u, p)
    BY StretchBack
  <2> HIDE DEF s
  <2>3. s \in Line(u, p) /\ Along(t, p) <= Along(g, p) /\ Along(t, p) \in Int
    BY <2>2, StretchIs, AlongBack DEF Line
  <2>4. Along(s, p) < Along(g, p)
    BY <1>0, <2>2, <2>3
  <2>5. Arrived(s, p).src = "none" /\ Coming(s, p).src = "none" /\ Queued(s, p).src = "none"
    BY <1>1, <1>2, <2>3, <2>4
  <2>6. Slot(t, k, Opp(p)) \in {Arrived(s, p), Coming(s, p), Queued(s, p)}
    BY <2>2 DEF Arrived, Arriving, Coming, Queued, Slot
  <2> QED
    BY <2>1, <2>5, <2>6
<1>5. ~Hears(u, p)
  BY <1>4 DEF Hears
<1> QED
  BY <1>3, <1>5

-----------------------------------------------------------------------------
(* The decisions of PowerStateEvaluate. *)

LEMMA ConsentInvIs ==
  ASSUME ConsentInv
  PROVE  /\ NoWakeup /\ Lawful
         /\ \A r \in Router : EarlyInv(r) /\ StartInv(r)
         /\ \A r \in Router : \A p \in MeshPorts(r) : LegalInv(r, p) /\ IdInv(r, p) /\ NbrInv(r, p)
         /\ \A u \in Router : power[u] # "off" => \A p \in MeshPorts(u) :
              NewsInv(u, p) /\ RespInv(u, p) /\ DoneInv(u, p) /\ TagInv(u, p) /\ GoneInv(u, p)
  BY DEF ConsentInv, Local, Link, Path, Lawful

(* By either policy, a router does not start to drain next to one that     *)
(* does, and gives way to one that has the higher priority.                *)
LEMMA Priorities ==
  ASSUME KInv, ConsentInv, NEW r \in Router
  PROVE  /\ StartsDraining(r) => \A p \in Port : down[r][p] # "draining"
         /\ ~Yields(r) => \A p \in {West, North} : down[r][p] # "draining"
<1>1. policy[r] \in {"gflov", "rflov", "noflov"}
  BY DEF KInv, TypeOK, Policy
<1>2. West \in Port /\ North \in Port
  BY DEF West, North, Port
<1>3. ASSUME NEW p \in Port, ~Boundary(r, p), nbr[r][p] # "off" PROVE down[r][p] = nbr[r][p]
  <2>1. p \in MeshPorts(r)
    BY <1>3, PortType
  <2> QED
    BY <1>3, <2>1, ConsentInvIs DEF NbrInv
<1>4. ASSUME NEW p \in Port, Boundary(r, p) PROVE down[r][p] = "off"
  BY <1>4, PortType DEF KInv, Edge
<1>5. ASSUME StartsDraining(r), NEW p \in Port PROVE down[r][p] # "draining"
  <2>1. CASE policy[r] = "gflov"
    BY <1>5, <2>1 DEF StartsDraining, DownIn
  <2>2. CASE policy[r] = "rflov"
    <3>1. ~Boundary(r, p) => nbr[r][p] \notin {"draining", "off"}
      BY <1>5, <2>2, PortType DEF StartsDraining, MeshNbr
    <3> QED
      BY <1>3, <1>4, <3>1
  <2> QED
    BY <1>1, <1>5, <2>1, <2>2 DEF StartsDraining
<1>6. ASSUME ~Yields(r), NEW p \in {West, North} PROVE down[r][p] # "draining"
  <2>1. CASE policy[r] = "gflov"
    BY <1>6, <2>1 DEF Yields
  <2>2. CASE policy[r] = "rflov"
    <3>1. ~Boundary(r, p) => nbr[r][p] # "draining" /\ nbr[r][p] # "off"
      BY <1>2, <1>6, <2>2, PortType DEF Yields, MeshNbr
    <3> QED
      BY <1>2, <1>3, <1>4, <3>1
  <2> QED
    BY <1>1, <1>6, <2>1, <2>2 DEF Yields
<1> QED
  BY <1>5, <1>6

(* What may become of a router. *)
LEMMA Decides ==
  ASSUME KInv, ConsentInv, NEW r \in Router
  PROVE  /\ power[r] \in {"on", "draining", "off"} /\ NextPower(r) \in PowerState
         /\ NextPower(r) # power[r] /\ NextPower(r) = "draining" => StartsDraining(r) /\ power[r] = "on"
         /\ power[r] = "on" => NextPower(r) \in {"on", "draining"}
         /\ NextPower(r) # power[r] /\ NextPower(r) = "off" => PowersOff(r) /\ power[r] = "draining"
         /\ PowersOff(r) => NextPower(r) = "off" /\ power[r] = "draining" /\ ~Yields(r) /\ Drained(r)
         /\ power[r] = "draining" /\ NextPower(r) = "draining" => ~Yields(r)
         /\ (\E p \in Port : down[r][p] = "draining") /\ power[r] = "on" => NextPower(r) = "on"
<1>1. power[r] \in {"on", "draining", "off"} /\ power[r] \in PowerState
  BY ConsentInvIs DEF KInv, TypeOK, PowerState, NoWakeup
<1>2. /\ StartsDraining(r) => power[r] = "on"
      /\ PowersOff(r) \/ Cancels(r) \/ GivesUp(r) => power[r] = "draining"
      /\ PowersOn(r) => power[r] = "wakeup"
      /\ StartsWakeup(r) => power[r] = "off"
      /\ PowersOff(r) => ~Cancels(r) /\ ~GivesUp(r) /\ Drained(r)
  BY DEF StartsDraining, PowersOff, Cancels, GivesUp, PowersOn, StartsWakeup
<1>3. NextPower(r) = IF StartsDraining(r) THEN "draining"
                     ELSE IF PowersOff(r) THEN "off"
                     ELSE IF Cancels(r) \/ GivesUp(r) \/ PowersOn(r) THEN "on"
                     ELSE IF StartsWakeup(r) THEN "wakeup" ELSE power[r]
  BY <1>2 DEF NextPower
<1>4. power[r] = "draining" /\ ~Cancels(r) => ~Yields(r)
  BY DEF Cancels
<1>5. StartsDraining(r) => \A p \in Port : down[r][p] # "draining"
  BY Priorities
<1> QED
  BY <1>1, <1>2, <1>3, <1>4, <1>5, NextPowerType

(* A router goes off when its downstream routers are on and stay on, know  *)
(* that it drains, and nothing is on its way from them.                    *)
LEMMA GoesOff ==
  ASSUME KInv, ConsentInv, phase = "power", NEW u \in Router, PowersOff(u), NEW p \in MeshPorts(u)
  PROVE  /\ Way(u, p) = {}
         /\ Downstream(u, p) = {} => down[u][p] = "off"
         /\ \A g \in Downstream(u, p) :
              /\ Agreed(u, p, g, 0) /\ Flits(u, p) = {} /\ down[u][p] = "on"
              /\ power[g] = "on" /\ NextPower(g) = "on" /\ down[g][Opp(p)] = "draining"
<1>1. /\ power[u] = "draining" /\ ~Yields(u) /\ Drained(u) /\ p \in Port
      /\ Lawful
      /\ NewsInv(u, p) /\ RespInv(u, p) /\ DoneInv(u, p) /\ TagInv(u, p) /\ GoneInv(u, p)
  BY Decides, ConsentInvIs, PortType
<1>2. p \in tags[u]
  BY <1>1 DEF Drained
<1>3. ~Overruled(u, p)
  BY <1>1, Priorities DEF Overruled
<1>4. ASSUME NEW g \in Downstream(u, p)
      PROVE  /\ Agreed(u, p, g, 0) /\ Flits(u, p) = {} /\ Way(u, p) = {} /\ down[u][p] = "on"
             /\ power[g] = "on" /\ NextPower(g) = "on" /\ down[g][Opp(p)] = "draining"
  <2>1. Agreed(u, p, g, 0)
    BY <1>1, <1>2, <1>3 DEF TagInv
  <2>2. Way(u, p) = {} /\ Flits(u, p) = {} /\ power[g] = "on" /\ ~Hears(g, Opp(p))
    BY <1>1, <2>1, AgreedNow, AgreedIs
  <2>3. ~Hears(u, p)
    BY <2>2 DEF Hears
  <2>4. down[u][p] = "on"
    BY <1>1, <2>2, <2>3, PathKnows
  <2>5. g \in Router /\ Opp(p) \in Port /\ u \in Downstream(g, Opp(p))
    BY <1>1, Facing
  <2>6. down[g][Opp(p)] = "draining"
    BY <1>1, <2>2, <2>5, PathKnows
  <2>7. NextPower(g) = "on"
    BY <2>2, <2>5, <2>6, Decides
  <2> QED
    BY <2>1, <2>2, <2>4, <2>6, <2>7
<1>5. ASSUME Downstream(u, p) = {} PROVE Way(u, p) = {} /\ down[u][p] = "off"
  <2>1. Way(u, p) = {}
    BY <1>1, <1>5 DEF GoneInv, NewsInv
  <2>2. ~Hears(u, p)
    BY <2>1 DEF Hears
  <2> QED
    BY <1>1, <1>5, <2>1, <2>2, PathNobody
<1> QED
  BY <1>4, <1>5

-----------------------------------------------------------------------------
(* PowerStateEvaluate. *)

LEMMA PowerIs ==
  ASSUME KInv, ConsentInv, PowerStateEvaluate, NoWakeup'
  PROVE  /\ phase = "power" /\ phase' = "eval"
         /\ UNCHANGED <<down, nbr, sent, respHid, wire, avail, active, occupied, flitWire, flitAvail>>
         /\ \A r \in Router :
              /\ power'[r] = NextPower(r) /\ NextPower(r) \in {"on", "draining", "off"}
              /\ power[r] \in {"on", "draining", "off"}
              /\ power[r] = "off" => power'[r] = "off"
              /\ power'[r] # power[r] => power[r] \in {"on", "draining"} /\ \A p \in Port : out[r][p] = NoMsg
              /\ power'[r] = "draining" =>
                   IF power[r] = "draining" THEN tags'[r] = tags[r]
                   ELSE tags'[r] = BoundaryPorts(r) \cup {p \in Port : down[r][p] = "off"}
<1>1. \A r \in Router : power'[r] = NextPower(r)
  BY DEF PowerStateEvaluate
<1>2. ASSUME NEW r \in Router
      PROVE  /\ NextPower(r) \in {"on", "draining", "off"} /\ power[r] \in {"on", "draining", "off"}
             /\ power[r] = "off" => NextPower(r) = "off"
  <2>1. power'[r] # "wakeup"
    BY DEF NoWakeup
  <2>2. NextPower(r) \in PowerState /\ power[r] \in {"on", "draining", "off"}
    BY Decides
  <2>3. power[r] = "off" => NextPower(r) \in {"off", "wakeup"}
    BY <2>2, NextPowerType DEF PowerState
  <2> QED
    BY <1>1, <2>1, <2>2, <2>3 DEF PowerState
<1>3. phase = "power" /\ phase' = "eval"
      /\ UNCHANGED <<down, nbr, sent, respHid, wire, avail, active, occupied, flitWire, flitAvail>>
  BY DEF PowerStateEvaluate, chans, packets
<1>4. ASSUME NEW r \in Router, power'[r] # power[r]
      PROVE  power[r] \in {"on", "draining"} /\ \A p \in Port : out[r][p] = NoMsg
  <2>1. power[r] \in {"on", "draining"}
    BY <1>1, <1>2, <1>4
  <2> QED
    BY <1>3, <2>1 DEF KInv, Shape, Idle
<1>5. ASSUME NEW r \in Router, power'[r] = "draining"
      PROVE  IF power[r] = "draining" THEN tags'[r] = tags[r]
             ELSE tags'[r] = BoundaryPorts(r) \cup {p \in Port : down[r][p] = "off"}
  <2>1. tags'[r] = IF StartsDraining(r) \/ StartsWakeup(r)
                   THEN BoundaryPorts(r) \cup {p \in Port : down[r][p] = "off"}
                   ELSE IF NextPower(r) # power[r] THEN {}
                   ELSE IF power[r] = "wakeup" THEN WakeTags(r)
                   ELSE tags[r]
    BY DEF PowerStateEvaluate
  <2>2. CASE power[r] = "draining"
    <3>1. ~StartsDraining(r) /\ ~StartsWakeup(r)
      BY <2>2 DEF StartsDraining, StartsWakeup
    <3> QED
      BY <1>1, <1>5, <2>1, <2>2, <3>1
  <2>3. CASE power[r] # "draining"
    <3>1. StartsDraining(r)
      BY <1>1, <1>5, <2>3, Decides
    <3> QED
      BY <2>1, <2>3, <3>1
  <2> QED
    BY <2>2, <2>3
<1> QED
  BY <1>1, <1>2, <1>3, <1>4, <1>5

(* What a router that changes its state says. *)
LEMMA Announced ==
  ASSUME KInv, ConsentInv, PowerStateEvaluate, NoWakeup', NEW r \in Router, NEW p \in MeshPorts(r)
  PROVE  /\ power'[r] = power[r] => out'[r][p] = out[r][p] /\ reqHid'[r][p] = reqHid[r][p]
         /\ power'[r] # power[r] =>
              /\ out'[r][p] # NoMsg
              /\ out'[r][p].src = power'[r] /\ out'[r][p].id = r /\ out'[r][p].done = FALSE
              /\ out'[r][p].hid = reqHid[r][p] + 1 /\ reqHid'[r][p] = reqHid[r][p] + 1
              /\ out'[r][p].new = IF power'[r] = "off" THEN down[r][Opp(p)] ELSE power'[r]
         /\ reqHid[r][p] \in Nat /\ reqHid'[r][p] \in Nat
<1>1. p \in Port /\ ~Boundary(r, p) /\ TypeOK
  BY PortType DEF KInv
<1>2. power'[r] = NextPower(r) /\ NextPower(r) \in {"on", "draining", "off"}
  BY PowerIs
<1>3. /\ out'[r][p] = IF Announces(r, p) THEN Announcement(r, p) ELSE out[r][p]
      /\ reqHid'[r][p] = IF Announces(r, p) THEN reqHid[r][p] + 1 ELSE reqHid[r][p]
      /\ Announces(r, p) <=> power'[r] # power[r]
  BY <1>1, <1>2 DEF PowerStateEvaluate, Announces
<1>4. reqHid[r][p] \in Nat
  BY <1>1 DEF TypeOK
<1>5. Announcement(r, p) # NoMsg
  BY <1>1, AnnouncementType
<1>6. /\ Announcement(r, p).src = NextPower(r) /\ Announcement(r, p).id = r
      /\ Announcement(r, p).done = FALSE /\ Announcement(r, p).hid = reqHid[r][p] + 1
      /\ Announcement(r, p).new = IF NextPower(r) = "off" THEN down[r][Opp(p)] ELSE NextPower(r)
  BY DEF Announcement
<1> QED
  BY <1>2, <1>3, <1>4, <1>5, <1>6

LEMMA PowerLocal ==
  ASSUME KInv, ConsentInv, PowerStateEvaluate, NoWakeup', NEW r \in Router
  PROVE  EarlyInv(r)' /\ StartInv(r)'
<1>1. /\ phase = "power" /\ phase' = "eval" /\ UNCHANGED <<down, active, occupied>>
      /\ power'[r] = NextPower(r) /\ power[r] \in {"on", "draining", "off"}
      /\ StartInv(r)
  BY PowerIs, ConsentInvIs
<1>2. power'[r] = "draining" => ~Yields(r) \/ StartsDraining(r)
  BY <1>1, Decides
<1>3. West \in Port /\ North \in Port
  BY DEF West, North, Port
<1>4. EarlyInv(r)'
  BY <1>1, <1>2, <1>3, Priorities DEF EarlyInv
<1>5. ASSUME power'[r] # "off", NEW p \in Port, out'[r][p].src = "draining" PROVE down[r][p] # "draining"
  <2>1. CASE Boundary(r, p)
    BY <2>1, PortType DEF KInv, Edge
  <2>2. CASE ~Boundary(r, p)
    <3>1. p \in MeshPorts(r)
      BY <2>2, PortType
    <3>2. power[r] # "off"
      BY <1>5, PowerIs
    <3>3. out[r][p] = NoMsg
      BY <1>1, <3>2 DEF KInv, Shape, Idle
    <3>4. power'[r] # power[r] /\ power'[r] = "draining"
      <4>1. /\ power'[r] = power[r] => out'[r][p] = out[r][p]
            /\ power'[r] # power[r] => out'[r][p].src = power'[r]
        BY <3>1, Announced
      <4>2. NoMsg.src = "none"
        BY MessageType
      <4> QED
        BY <1>5, <3>3, <4>1, <4>2
    <3>5. StartsDraining(r)
      BY <1>1, <3>4, Decides
    <3> QED
      BY <3>5, Priorities
  <2> QED
    BY <2>1, <2>2
<1>6. power'[r] # "on" => r \in Gateable
  <2>1. StartsDraining(r) => r \in Gateable
    BY DEF StartsDraining
  <2> QED
    BY <1>1, <2>1, Decides DEF StartInv
<1>7. ASSUME NEW p \in Port, <<r, p>> \in active
      PROVE  power'[r] # "off" /\ (r \in Gateable => r \in occupied)
  <2>1. power[r] # "off" /\ (r \in Gateable => r \in occupied)
    BY <1>1, <1>7 DEF StartInv
  <2>2. ASSUME power'[r] = "off" PROVE FALSE
    <3>1. PowersOff(r) /\ power[r] = "draining"
      BY <1>1, <2>1, <2>2, Decides
    <3>2. r \notin occupied
      BY <3>1 DEF PowersOff, Drained
    <3> QED
      BY <1>1, <2>1, <3>1, <3>2 DEF StartInv
  <2> QED
    BY <2>1, <2>2
<1>8. StartInv(r)'
  BY <1>1, <1>5, <1>6, <1>7 DEF StartInv
<1> QED
  BY <1>4, <1>8

LEMMA PowerLink ==
  ASSUME KInv, ConsentInv, PowerStateEvaluate, NoWakeup', NEW r \in Router, NEW p \in MeshPorts(r)
  PROVE  LegalInv(r, p)' /\ IdInv(r, p)' /\ NbrInv(r, p)'
<1> DEFINE n == Nbr(r, p)
           q == Opp(p)
<1>1. p \in Port /\ n \in Router /\ q \in MeshPorts(n) /\ Opp(q) = p /\ q \in Port
  BY MeshLink
<1>2. /\ phase = "power" /\ phase' = "eval" /\ UNCHANGED <<down, nbr, wire, avail>>
  BY PowerIs
<1>3. LegalInv(r, p) /\ IdInv(r, p) /\ NbrInv(r, p) /\ LinkInv(r, p)
  BY ConsentInvIs DEF KInv
<1>4. /\ Arrived(r, p) = NoMsg /\ Arrived(r, p)' = NoMsg /\ Coming(r, p)' = Coming(r, p)
      /\ Queued(r, p) = out[n][q] /\ Queued(r, p)' = out'[n][q]
  BY <1>2 DEF Arrived, Coming, Queued
<1>5. Known1(r, p)' = Known1(r, p) /\ Noted1(r, p)' = Noted1(r, p)
  <2>1. Known(r, p)' = Known(r, p)
    <3>1. logical' = logical
      BY DEF PowerStateEvaluate
    <3> QED
      BY <1>2, <3>1 DEF Known
  <2> QED
    BY <1>2, <1>4, <2>1 DEF Known1, Noted1
<1>6. Known2(r, p)' = Known2(r, p) /\ Noted2(r, p)' = Noted2(r, p)
  BY <1>4, <1>5 DEF Known2, Noted2
<1>7. Noted3(r, p)' = Noted(out'[n][q], n, Noted2(r, p)) /\ Noted3(r, p) = Noted(out[n][q], n, Noted2(r, p))
  BY <1>4, <1>6 DEF Noted3
<1>8. CASE power'[n] = power[n]
  <2>1. out'[n][q] = out[n][q]
    BY <1>1, <1>8, Announced
  <2>2. LegalInv(r, p)'
    BY <1>2, <1>3, <1>4, <1>5, <1>6, <2>1 DEF LegalInv
  <2>3. IdInv(r, p)'
    BY <1>2, <1>3, <1>4, <2>1 DEF IdInv
  <2>4. NbrInv(r, p)'
    BY <1>2, <1>3, <1>4, <1>5, <1>6, <1>7, <1>8, <2>1 DEF NbrInv
  <2> QED
    BY <2>2, <2>3, <2>4
<1>9. CASE power'[n] # power[n]
  <2>1. /\ power'[n] = NextPower(n) /\ power[n] \in {"on", "draining"} /\ out[n][q] = NoMsg
        /\ power'[n] \in {"on", "draining", "off"}
    BY <1>1, <1>9, PowerIs
  <2>2. /\ out'[n][q].src = power'[n] /\ out'[n][q].id = n
        /\ out'[n][q].new = IF power'[n] = "off" THEN down[n][p] ELSE power'[n]
    <3> HIDE DEF n, q
    <3>1. /\ out'[n][q].src = power'[n] /\ out'[n][q].id = n
          /\ out'[n][q].new = IF power'[n] = "off" THEN down[n][Opp(q)] ELSE power'[n]
      BY <1>1, <1>9, Announced
    <3> QED
      BY <1>1, <3>1
  <2>3. Known2(r, p).down = power[n]
    <3>1. Known3(r, p).down = power[n]
      BY <1>3, <2>1 DEF LinkInv, Agree, Shown
    <3> QED
      BY <1>4, <2>1, <3>1, AfterIs, MessageType DEF Known3
  <2>4. power'[n] = "off" => power[n] = "draining" /\ down[n][p] \in {"on", "off"}
    <3>1. ASSUME power'[n] = "off" PROVE power[n] = "draining" /\ down[n][p] \in {"on", "off"}
      <4>1. PowersOff(n) /\ power[n] = "draining"
        BY <1>1, <1>9, <2>1, <3>1, Decides
      <4>2. CASE Boundary(n, p)
        <5>1. down[n][p] = "off"
          BY <1>1, <4>2, PortType DEF KInv, Edge
        <5> QED
          BY <4>1, <5>1
      <4>3. CASE ~Boundary(n, p)
        <5>1. p \in MeshPorts(n)
          BY <1>1, <4>3, PortType
        <5>2. Downstream(n, p) = {} => down[n][p] = "off"
          BY <1>1, <1>2, <4>1, <5>1, GoesOff
        <5>3. \A g \in Downstream(n, p) : down[n][p] = "on"
          BY <1>1, <1>2, <4>1, <5>1, GoesOff
        <5> QED
          BY <4>1, <5>2, <5>3
      <4> QED
        BY <4>2, <4>3
    <3> QED
      BY <3>1
  <2>5. power'[n] = "draining" => power[n] = "on"
    BY <1>9, <2>1
  <2>6. power'[n] = "on" => power[n] = "draining"
    BY <1>9, <2>1
  <2>7. Legal(out'[n][q], Known2(r, p).down)
    BY <2>1, <2>2, <2>3, <2>4, <2>5, <2>6 DEF Legal
  <2>8. LegalInv(r, p)'
    BY <1>2, <1>3, <1>4, <1>5, <1>6, <2>7 DEF LegalInv
  <2>9. IdInv(r, p)'
    BY <1>2, <1>3, <1>4, <2>2 DEF IdInv, By
  <2>10. out'[n][q].new # "none"
    BY <2>1, <2>2, <2>4
  <2>11. Noted3(r, p)' = power'[n]
    BY <1>7, <2>2, <2>10 DEF Noted
  <2>12. NbrInv(r, p)'
    BY <1>2, <1>3, <1>4, <1>5, <1>6, <2>2, <2>11 DEF NbrInv, Speaks
  <2> QED
    BY <2>8, <2>9, <2>12
<1> QED
  BY <1>8, <1>9

LEMMA PowerSlot ==
  ASSUME KInv, ConsentInv, PowerStateEvaluate, NoWakeup', NEW s \in Router, NEW q \in MeshPorts(s), NEW k \in 0 .. 2
  PROVE  Slot(s, k, q)' = IF k = 2 /\ power'[s] # power[s] THEN out'[s][q] ELSE Slot(s, k, q)
<1>1. phase = "power" /\ phase' = "eval" /\ UNCHANGED <<wire, avail>>
  BY PowerIs
<1>2. power'[s] = power[s] => out'[s][q] = out[s][q]
  BY Announced
<1> QED
  BY <1>1, <1>2 DEF Slot

(* As long as the downstream router does not go off, its announcement is   *)
(* all that is new on a stretch.                                           *)
LEMMA PowerSame ==
  ASSUME KInv, ConsentInv, PowerStateEvaluate, NoWakeup', NEW v \in Router, NEW p \in Port,
         \A d \in Downstream(v, p) : power'[d] # "off"
  PROVE  /\ Downstream(v, p)' = Downstream(v, p) /\ Flits(v, p)' = Flits(v, p)
         /\ Way(v, p) \subseteq Way(v, p)'
         /\ \A e \in Way(v, p)' : \/ e \in Way(v, p)
                                  \/ \E d \in Downstream(v, p) :
                                       /\ power'[d] # power[d] /\ e.msg = out'[d][Opp(p)]
                                       /\ \A f \in Way(v, p)' : f.at <= e.at /\ (f \in Way(v, p) => f.at < e.at)
<1> DEFINE q == Opp(p)
<1>1. \A s \in Router : power[s] = "off" => power'[s] = "off"
  BY PowerIs
<1>2. Downstream(v, p)' = Downstream(v, p)
  <2>1. ASSUME NEW d \in Downstream(v, p) PROVE d \in Downstream(v, p)'
    <3>1. /\ d \in Ahead(v, p) /\ power'[d] # "off"
          /\ \A s \in Ahead(v, p) : d \in Ahead(s, p) => power[s] = "off"
      BY DEF Downstream
    <3>2. \A s \in Ahead(v, p) : d \in Ahead(s, p) => power'[s] = "off"
      BY <1>1, <3>1, AheadAlong
    <3> QED
      BY <3>1, <3>2 DEF Downstream
  <2>2. ASSUME NEW t \in Downstream(v, p)' PROVE t \in Downstream(v, p)
    <3>1. /\ t \in Ahead(v, p) /\ power'[t] # "off" /\ t \in Router
          /\ \A s \in Ahead(v, p) : t \in Ahead(s, p) => power'[s] = "off"
      BY AheadAlong DEF Downstream
    <3>2. power[t] # "off"
      BY <1>1, <3>1
    <3>3. PICK d \in Downstream(v, p) : Along(d, p) <= Along(t, p)
      BY <3>1, <3>2, NearestUp
    <3>4. d \in Ahead(v, p) /\ d \in Router /\ power'[d] # "off"
      BY AheadAlong DEF Downstream
    <3>5. t \notin Ahead(d, p)
      BY <3>1, <3>4
    <3>6. ~(Along(t, p) > Along(d, p))
      BY <3>1, <3>4, <3>5, AheadAlong
    <3>7. Along(t, p) = Along(d, p)
      BY <3>1, <3>3, <3>4, <3>6, AlongBack
    <3>8. t = d
      BY <3>1, <3>4, <3>7, AheadAlong
    <3> QED
      BY <3>8
  <2> QED
    BY <2>1, <2>2
<1>3. Stretch(v, p)' = Stretch(v, p)
  BY <1>2 DEF Stretch
<1>4. Flits(v, p)' = Flits(v, p)
  BY <1>3, PowerIs DEF Flits
<1>5. ASSUME NEW s \in Stretch(v, p), NEW k \in 0 .. 2
      PROVE  /\ s \in Router
             /\ Slot(s, k, q)' = IF k = 2 /\ power'[s] # power[s] THEN out'[s][q] ELSE Slot(s, k, q)
             /\ power'[s] # power[s] => s \in Downstream(v, p) /\ out[s][q] = NoMsg
  <2>1. s \in Router /\ q \in MeshPorts(s) /\ q \in Port
    BY StretchBack, OppType, PortType
  <2>2. Slot(s, k, q)' = IF k = 2 /\ power'[s] # power[s] THEN out'[s][q] ELSE Slot(s, k, q)
    BY <2>1, PowerSlot
  <2>3. power'[s] # power[s] => power[s] # "off" /\ out[s][q] = NoMsg
    BY <1>1, <2>1, PowerIs
  <2> QED
    BY <2>1, <2>2, <2>3, StretchIs
<1>6. ASSUME NEW e \in Way(v, p) PROVE e \in Way(v, p)'
  <2>1. PICK s \in Stretch(v, p), k \in 0 .. 2 : e = [msg |-> Slot(s, k, q), at |-> At(s, k, p)]
    BY WayIs
  <2>2. Slot(s, k, q) # NoMsg
    BY <2>1, WayIs
  <2>3. ~(k = 2 /\ power'[s] # power[s])
    BY <1>5, <2>2 DEF Slot
  <2>4. Slot(s, k, q)' = Slot(s, k, q)
    BY <1>5, <2>3
  <2> QED
    BY <1>3, <2>1, <2>2, <2>4 DEF Way
<1>7. ASSUME NEW e \in Way(v, p)', e \notin Way(v, p)
      PROVE  \E d \in Downstream(v, p) :
               /\ power'[d] # power[d] /\ e.msg = out'[d][q]
               /\ \A f \in Way(v, p)' : f.at <= e.at /\ (f \in Way(v, p) => f.at < e.at)
  <2>1. PICK s \in Stretch(v, p), k \in 0 .. 2 : e = [msg |-> Slot(s, k, q)', at |-> At(s, k, p)] /\ e.msg # NoMsg
    BY <1>3 DEF Way
  <2>2. k = 2 /\ power'[s] # power[s]
    <3>1. ASSUME ~(k = 2 /\ power'[s] # power[s]) PROVE FALSE
      <4>1. Slot(s, k, q)' = Slot(s, k, q)
        BY <1>5, <3>1
      <4>2. Slot(s, k, q) # NoMsg /\ e = [msg |-> Slot(s, k, q), at |-> At(s, k, p)]
        BY <2>1, <4>1
      <4> QED
        BY <1>7, <4>2, InWay
    <3> QED
      BY <3>1
  <2>3. s \in Downstream(v, p) /\ s \in Router /\ out[s][q] = NoMsg
    BY <1>5, <2>2
  <2>4. e.msg = out'[s][q] /\ e.at = 2 * Along(s, p) + 2
    BY <1>5, <2>1, <2>2 DEF At
  <2>5. ASSUME NEW f \in Way(v, p)' PROVE f.at <= e.at
    <3>1. PICK t \in Stretch(v, p), j \in 0 .. 2 : f = [msg |-> Slot(t, j, q)', at |-> At(t, j, p)]
      BY <1>3 DEF Way
    <3>2. Along(t, p) <= Along(s, p) /\ t \in Router
      BY <2>3, StretchIs
    <3>3. f.at = 2 * Along(t, p) + j /\ Along(t, p) \in Int /\ Along(s, p) \in Int
      BY <2>3, <3>1, <3>2, AlongBack DEF At
    <3> QED
      BY <2>4, <3>2, <3>3
  <2>6. ASSUME NEW f \in Way(v, p) PROVE f.at < e.at
    <3>1. PICK t \in Stretch(v, p), j \in 0 .. 2 : f = [msg |-> Slot(t, j, q), at |-> At(t, j, p)]
      BY WayIs
    <3>2. Along(t, p) <= Along(s, p) /\ t \in Ahead(v, p) /\ s \in Ahead(v, p) /\ t \in Router
      BY <2>3, StretchIs
    <3>3. f.at = 2 * Along(t, p) + j /\ Along(t, p) \in Int /\ Along(s, p) \in Int
      BY <2>3, <3>1, <3>2, AlongBack DEF At
    <3>4. t # s \/ j # 2
      <4>1. f.msg # NoMsg
        BY WayIs
      <4> QED
        BY <2>3, <3>1, <4>1 DEF Slot
    <3>5. Along(t, p) = Along(s, p) => t = s
      BY <3>2, AheadAlong
    <3> QED
      BY <2>4, <3>2, <3>3, <3>4, <3>5
  <2> QED
    BY <2>2, <2>3, <2>4, <2>5, <2>6
<1> QED
  BY <1>2, <1>4, <1>6, <1>7

(* Consent holds as long as the one who asked for it drains. *)
LEMMA PowerAgreed ==
  ASSUME KInv, ConsentInv, PowerStateEvaluate, NoWakeup', NEW u \in Router, NEW p \in Port, NEW g \in Downstream(u, p),
         power[u] = "draining", power'[u] = "draining", NEW x, Agreed(u, p, g, x)
  PROVE  Agreed(u, p, g, x)'
<1>1. /\ power[g] = "on" /\ Opp(p) \in sent[g] /\ <<g, Opp(p)>> \notin active /\ ~Hears(g, Opp(p))
      /\ \A e \in Way(u, p) : e.at <= x
      /\ \A y \in Flits(u, p) : y < x
  BY AgreedIs
<1>2. /\ g \in Router /\ Opp(p) \in Port /\ Opp(Opp(p)) = p /\ u \in Downstream(g, Opp(p))
  BY Facing
<1>3. down[g][Opp(p)] = "draining"
  BY <1>1, <1>2, PathKnows, ConsentInvIs
<1>4. power'[g] = "on"
  BY <1>1, <1>2, <1>3, Decides, PowerIs
<1>5. Opp(p) \in sent'[g] /\ <<g, Opp(p)>> \notin active'
  BY <1>1, PowerIs
<1>6. \A d \in Downstream(u, p) : d = g
  BY DownstreamUnique
<1>7. \A d \in Downstream(g, Opp(p)) : d = u
  BY <1>2, DownstreamUnique
<1>8. \A e \in Way(u, p)' : e \in Way(u, p)
  BY <1>1, <1>4, <1>6, PowerSame
<1>9. Flits(u, p)' = Flits(u, p)
  BY <1>4, <1>6, PowerSame
<1>10. \A e \in Way(g, Opp(p))' : e \in Way(g, Opp(p))
  BY <1>2, <1>7, PowerSame
<1>11. ~Hears(g, Opp(p))'
  BY <1>1, <1>10 DEF Hears
<1> QED
  BY <1>1, <1>4, <1>5, <1>8, <1>9, <1>11 DEF Agreed

LEMMA PowerNews ==
  ASSUME KInv, ConsentInv, PowerStateEvaluate, NoWakeup', NEW u \in Router, power'[u] # "off", NEW p \in MeshPorts(u),
         \A d \in Downstream(u, p) : power'[d] # "off"
  PROVE  NewsInv(u, p)' /\ RespInv(u, p)'
<1> DEFINE q == Opp(p)
<1>1. /\ p \in Port /\ NewsInv(u, p) /\ RespInv(u, p) /\ power[u] \in {"on", "draining"}
      /\ down' = down /\ sent' = sent /\ respHid' = respHid
  BY ConsentInvIs, PortType, PowerIs
<1>2. /\ Downstream(u, p)' = Downstream(u, p)
      /\ \A e \in Way(u, p)' : \/ e \in Way(u, p)
                               \/ \E d \in Downstream(u, p) :
                                    /\ power'[d] # power[d] /\ e.msg = out'[d][q]
                                    /\ \A f \in Way(u, p)' : f.at <= e.at /\ (f \in Way(u, p) => f.at < e.at)
  BY <1>1, PowerSame
<1>3. ASSUME NEW g \in Downstream(u, p)
      PROVE  /\ g \in Router /\ reqHid[g][q] \in Nat /\ reqHid'[g][q] \in Nat /\ reqHid[g][q] <= reqHid'[g][q]
             /\ power'[g] # power[g] => /\ out'[g][q].src = power'[g] /\ power'[g] # "off"
                                        /\ out'[g][q].hid = reqHid'[g][q] /\ reqHid[g][q] < reqHid'[g][q]
  <2>1. g \in Router /\ q \in MeshPorts(g)
    BY <1>1, PowerIs, Facing
  <2> HIDE DEF q
  <2>2. reqHid[g][q] \in Nat /\ reqHid'[g][q] \in Nat
    BY <2>1, Announced
  <2>3. power'[g] = power[g] => reqHid'[g][q] = reqHid[g][q]
    BY <2>1, Announced
  <2>4. power'[g] # power[g] => /\ out'[g][q].src = power'[g] /\ out'[g][q].hid = reqHid[g][q] + 1
                                /\ reqHid'[g][q] = reqHid[g][q] + 1
    BY <2>1, Announced
  <2> QED
    BY <2>1, <2>2, <2>3, <2>4
<1>4. ASSUME NEW e \in Way(u, p)
      PROVE  e.at \in Int /\ e.msg.hid \in Nat
  <2>1. PICK s \in Stretch(u, p), k \in 0 .. 2 : e = [msg |-> Slot(s, k, q), at |-> At(s, k, p)]
    BY <1>1, WayIs
  <2>2. s \in Router /\ q \in Port
    BY <1>1, StretchIs, OppType
  <2>3. Slot(s, k, q) \in Message
    BY <2>2, MessageType DEF Slot, KInv, TypeOK
  <2>4. e.at \in Int
    BY <1>1, WayIs
  <2> QED
    BY <2>1, <2>3, <2>4, MessageType
<1>5. power[u] = "on" /\ down[u][p] = "draining" => power'[u] = "on"
  BY <1>1, PowerIs, Decides
<1> HIDE DEF q
<1>6. ASSUME NEW e \in Way(u, p)', e.msg.src = "off"
      PROVE  power'[u] = "on" /\ p \in sent'[u] /\ down'[u][p] = "draining"
  <2>1. e \in Way(u, p)
    BY <1>2, <1>3, <1>6
  <2> QED
    BY <1>1, <1>5, <1>6, <2>1 DEF NewsInv
<1>7. ASSUME NEW e \in Way(u, p)', e.msg.src = "draining"
      PROVE  \E g \in Downstream(u, p)' : e.msg.hid <= reqHid'[g][q]
  <2>1. CASE e \in Way(u, p)
    <3>1. PICK g \in Downstream(u, p) : e.msg.hid <= reqHid[g][q]
      BY <1>1, <1>7, <2>1 DEF NewsInv, q
    <3>2. e.msg.hid <= reqHid'[g][q]
      BY <1>3, <1>4, <2>1, <3>1
    <3> QED
      BY <1>2, <3>2
  <2>2. CASE e \notin Way(u, p)
    <3>1. PICK d \in Downstream(u, p) : power'[d] # power[d] /\ e.msg = out'[d][q]
      BY <1>2, <2>2
    <3> QED
      BY <1>2, <1>3, <3>1
  <2> QED
    BY <2>1, <2>2
<1>8. ASSUME NEW e \in Way(u, p)', e.msg.src # "none", NEW f \in Way(u, p)', f.at > e.at
      PROVE  /\ f.msg.src # "off"
             /\ e.msg.src = "draining" /\ f.msg.src = "draining" => e.msg.hid < f.msg.hid
  <2>1. e \in Way(u, p)
    <3>1. ASSUME e \notin Way(u, p) PROVE FALSE
      <4>1. f.at <= e.at
        BY <1>2, <3>1
      <4>2. CASE f \in Way(u, p)
        <5>1. PICK d \in Downstream(u, p) : \A h \in Way(u, p)' : h.at <= e.at /\ (h \in Way(u, p) => h.at < e.at)
          BY <1>2, <3>1
        <5>2. f.at < e.at /\ f.at \in Int
          BY <1>4, <4>2, <5>1
        <5>3. e.at \in Int
          <6>1. PICK s \in Stretch(u, p)', k \in 0 .. 2 : e.at = At(s, k, p)
            BY DEF Way
          <6>2. s \in Router
            BY <1>1, AheadAlong DEF Stretch
          <6> QED
            BY <1>1, <6>1, <6>2, AlongBack DEF At
        <5> QED
          BY <1>8, <5>2, <5>3
      <4>3. CASE f \notin Way(u, p)
        <5>1. e.at <= f.at
          BY <1>2, <4>3
        <5>2. \A h \in {e, f} : h.at \in Int
          <6>1. ASSUME NEW h \in {e, f} PROVE h.at \in Int
            <7>1. PICK s \in Stretch(u, p)', k \in 0 .. 2 : h.at = At(s, k, p)
              BY DEF Way
            <7>2. s \in Router
              BY <1>1, AheadAlong DEF Stretch
            <7> QED
              BY <1>1, <7>1, <7>2, AlongBack DEF At
          <6> QED
            BY <6>1
        <5> QED
          BY <1>8, <4>1, <5>2
      <4> QED
        BY <4>2, <4>3
    <3> QED
      BY <3>1
  <2>2. CASE f \in Way(u, p)
    BY <1>1, <1>8, <2>1, <2>2 DEF NewsInv
  <2>3. CASE f \notin Way(u, p)
    <3>1. PICK d \in Downstream(u, p) : power'[d] # power[d] /\ f.msg = out'[d][q]
      BY <1>2, <2>3
    <3>2. f.msg.src # "off" /\ f.msg.hid = reqHid'[d][q] /\ reqHid[d][q] < reqHid'[d][q]
      BY <1>3, <3>1
    <3>3. e.msg.src = "draining" => e.msg.hid <= reqHid[d][q]
      BY <1>1, <2>1, DownstreamUnique DEF NewsInv, q
    <3> QED
      BY <1>3, <1>4, <2>1, <3>2, <3>3
  <2> QED
    BY <2>2, <2>3
<1>9. NewsInv(u, p)'
  BY <1>6, <1>7, <1>8 DEF NewsInv, q
<1>10. ASSUME down'[u][p] = "draining", p \notin sent'[u]
       PROVE  /\ \E g \in Downstream(u, p)' : respHid'[u][p] <= reqHid'[g][q]
              /\ \A e \in Way(u, p)' : e.msg.src = "draining" => respHid'[u][p] < e.msg.hid
  <2>1. respHid[u][p] \in Nat
    BY <1>1 DEF KInv, TypeOK
  <2>2. PICK g \in Downstream(u, p) : respHid[u][p] <= reqHid[g][q]
    BY <1>1, <1>10 DEF RespInv, q
  <2>3. respHid'[u][p] <= reqHid'[g][q]
    BY <1>1, <1>3, <2>1, <2>2
  <2>4. ASSUME NEW e \in Way(u, p)', e.msg.src = "draining" PROVE respHid'[u][p] < e.msg.hid
    <3>1. CASE e \in Way(u, p)
      BY <1>1, <1>10, <2>4, <3>1 DEF RespInv
    <3>2. CASE e \notin Way(u, p)
      <4>1. PICK d \in Downstream(u, p) : power'[d] # power[d] /\ e.msg = out'[d][q]
        BY <1>2, <3>2
      <4>2. d = g
        BY <1>1, DownstreamUnique
      <4> QED
        BY <1>1, <1>3, <2>1, <2>2, <4>1, <4>2
    <3> QED
      BY <3>1, <3>2
  <2> QED
    BY <1>2, <2>3, <2>4
<1>11. RespInv(u, p)'
  BY <1>10 DEF RespInv, q
<1> QED
  BY <1>9, <1>11

LEMMA PowerDone ==
  ASSUME KInv, ConsentInv, PowerStateEvaluate, NoWakeup', NEW u \in Router, power'[u] # "off", NEW p \in MeshPorts(u),
         \A d \in Downstream(u, p) : power'[d] # "off"
  PROVE  DoneInv(u, p)' /\ TagInv(u, p)' /\ GoneInv(u, p)'
<1> DEFINE q == Opp(p)
<1>1. /\ p \in Port /\ DoneInv(u, p) /\ TagInv(u, p) /\ GoneInv(u, p) /\ power[u] \in {"on", "draining"}
      /\ down' = down /\ Lawful
  BY ConsentInvIs, PortType, PowerIs
<1>2. /\ Downstream(u, p)' = Downstream(u, p) /\ Way(u, p) \subseteq Way(u, p)'
      /\ \A e \in Way(u, p)' : \/ e \in Way(u, p)
                               \/ \E d \in Downstream(u, p) : power'[d] # power[d] /\ e.msg = out'[d][q]
  BY <1>1, PowerSame
<1>3. ASSUME NEW e \in Way(u, p)', e.msg.done PROVE e \in Way(u, p)
  <2>1. ASSUME NEW d \in Downstream(u, p), power'[d] # power[d] PROVE out'[d][q].done = FALSE
    <3>1. d \in Router /\ q \in MeshPorts(d)
      BY <1>1, PowerIs, Facing
    <3> HIDE DEF q
    <3> QED
      BY <2>1, <3>1, Announced
  <2> QED
    BY <1>2, <1>3, <2>1
<1>4. /\ reqHid[u][p] \in Nat /\ reqHid'[u][p] \in Nat
      /\ power'[u] = power[u] => reqHid'[u][p] = reqHid[u][p]
      /\ power'[u] # power[u] => reqHid'[u][p] = reqHid[u][p] + 1
  BY Announced
<1>5. ~Overruled(u, p) \/ power'[u] # "draining" \/ power[u] # "draining"
  BY PowerIs, Decides, Priorities DEF Overruled
<1>6. ASSUME NEW e \in Way(u, p) PROVE e.msg.hid \in Nat
  <2>1. PICK s \in Stretch(u, p), k \in 0 .. 2 : e = [msg |-> Slot(s, k, q), at |-> At(s, k, p)]
    BY <1>1, WayIs
  <2>2. s \in Router /\ q \in Port
    BY <1>1, StretchIs, OppType
  <2>3. Slot(s, k, q) \in Message
    BY <2>2, MessageType DEF Slot, KInv, TypeOK
  <2> QED
    BY <2>1, <2>3, MessageType
<1> HIDE DEF q
<1>7. ASSUME NEW e \in Way(u, p)', e.msg.done PROVE e.msg.hid <= reqHid'[u][p]
  <2>1. e \in Way(u, p) /\ e.msg.hid <= reqHid[u][p] /\ e.msg.hid \in Nat
    BY <1>1, <1>3, <1>6, <1>7 DEF DoneInv
  <2> QED
    BY <1>4, <2>1
<1>8. ASSUME NEW e \in Way(u, p)', e.msg.done, power'[u] = "draining", e.msg.hid = reqHid'[u][p]
      PROVE  \/ \E g \in Downstream(u, p)' : Agreed(u, p, g, e.at)'
             \/ p \in {West, North} /\ \E f \in Way(u, p)' : f.msg.src = "draining" /\ f.at <= e.at
  <2>1. e \in Way(u, p) /\ e.msg.hid <= reqHid[u][p] /\ e.msg.hid \in Nat
    BY <1>1, <1>3, <1>6, <1>8 DEF DoneInv
  <2>2. power[u] = "draining" /\ e.msg.hid = reqHid[u][p]
    BY <1>4, <1>8, <2>1
  <2>3. \/ \E g \in Downstream(u, p) : Agreed(u, p, g, e.at)
        \/ p \in {West, North} /\ \E f \in Way(u, p) : f.msg.src = "draining" /\ f.at <= e.at
    BY <1>1, <1>5, <1>8, <2>1, <2>2 DEF DoneInv
  <2>4. ASSUME NEW g \in Downstream(u, p), Agreed(u, p, g, e.at) PROVE Agreed(u, p, g, e.at)'
    <3> DEFINE x == e.at
    <3>1. Agreed(u, p, g, x)
      BY <2>4
    <3> HIDE DEF x
    <3>2. Agreed(u, p, g, x)'
      BY <1>1, <1>8, <2>2, <3>1, PowerAgreed
    <3> QED
      BY <3>2 DEF x
  <2> QED
    BY <1>2, <2>3, <2>4
<1>9. DoneInv(u, p)'
  BY <1>7, <1>8 DEF DoneInv
<1>10. ASSUME power'[u] = "draining", p \in tags'[u], NEW g \in Downstream(u, p)' PROVE Agreed(u, p, g, 0)'
  <2>1. g \in Downstream(u, p)
    BY <1>2
  <2>2. power[u] = "draining"
    <3>1. ASSUME power[u] # "draining" PROVE FALSE
      <4>1. p \in BoundaryPorts(u) \cup {i \in Port : down[u][i] = "off"}
        BY <1>10, <3>1, PowerIs
      <4>2. down[u][p] = "off"
        BY <4>1, PortType
      <4> QED
        BY <1>1, <2>1, <4>2, OffMeansNobody
    <3> QED
      BY <3>1
  <2>3. p \in tags[u]
    BY <1>10, <2>2, PowerIs
  <2>4. Agreed(u, p, g, 0)
    BY <1>1, <1>5, <1>10, <2>1, <2>2, <2>3 DEF TagInv
  <2> QED
    BY <1>1, <1>10, <2>1, <2>2, <2>4, PowerAgreed
<1>11. TagInv(u, p)'
  BY <1>10 DEF TagInv
<1>12. ASSUME Downstream(u, p)' = {}, NEW e \in Way(u, p)'
       PROVE  \E f \in Way(u, p)' : f.msg.src = "off" /\ f.at >= e.at
  BY <1>1, <1>2, <1>12 DEF GoneInv
<1>13. GoneInv(u, p)'
  BY <1>12 DEF GoneInv
<1> QED
  BY <1>9, <1>11, <1>13

(* When the downstream router goes off, what it says is all the news on    *)
(* the longer stretch.                                                     *)
LEMMA PowerMerge ==
  ASSUME KInv, ConsentInv, PowerStateEvaluate, NoWakeup', NEW v \in Router, power'[v] # "off", NEW p \in MeshPorts(v),
         NEW d \in Downstream(v, p), power'[d] = "off"
  PROVE  /\ power'[v] = "on" /\ p \in sent[v] /\ down[v][p] = "draining" /\ ~Hears(v, p)
         /\ \E f \in Way(v, p)' :
              /\ f.msg.src = "off" /\ f.msg.done = FALSE
              /\ \A e \in Way(v, p)' : (e \in Way(v, p) \/ e = f) /\ e.at <= f.at
<1> DEFINE q == Opp(p)
<1>0. p \in Port /\ power[v] # "off"
  BY PortType, PowerIs
<1>1. /\ d \in Router /\ power[d] # "off" /\ v \in Downstream(d, q) /\ q \in MeshPorts(d) /\ q \in Port
      /\ Opp(q) = p /\ Along(v, p) < Along(d, p)
  BY <1>0, Facing
<1>2. PowersOff(d) /\ power'[d] # power[d] /\ phase = "power"
  BY <1>1, Decides, PowerIs
<1>3. Agreed(d, q, v, 0) /\ power[v] = "on" /\ NextPower(v) = "on" /\ down[v][Opp(q)] = "draining"
  <2> HIDE DEF q
  <2> QED
    BY <1>1, <1>2, GoesOff
<1>4. p \in sent[v] /\ ~Hears(v, p)
  <2> HIDE DEF q
  <2> QED
    BY <1>1, <1>3, AgreedIs
<1>5. power'[v] = "on" /\ down[v][p] = "draining"
  BY <1>1, <1>3, PowerIs
<1>6. d \in Ahead(v, p)
  BY DEF Downstream
<1>7. ASSUME NEW s \in Router, NEW k \in 0 .. 2, q \in MeshPorts(s)
      PROVE  Slot(s, k, q)' = IF k = 2 /\ power'[s] # power[s] THEN out'[s][q] ELSE Slot(s, k, q)
  <2> HIDE DEF q
  <2> QED
    BY <1>7, PowerSlot
<1>8. ASSUME NEW s \in Stretch(v, p)', s \notin Stretch(v, p), NEW k \in 0 .. 2
      PROVE  Slot(s, k, q)' = NoMsg
  <2>1. s \in Ahead(v, p) /\ s \in Router
    BY <1>0, AheadAlong DEF Stretch
  <2>2. ~(Along(s, p) <= Along(d, p))
    BY <1>0, <1>8, <2>1, StretchIs
  <2>3. s \in Ahead(d, p)
    BY <1>0, <1>1, <1>6, <2>1, <2>2, AheadAlong, AlongBack
  <2>4. p \in MeshPorts(d)
    <3>1. Along(s, p) \in 0 .. K - 1 /\ Along(d, p) \in 0 .. K - 1 /\ K \in Int
      BY <1>0, <1>1, <2>1, AlongType, KAssumption
    <3>2. ~Boundary(d, p)
      BY <1>0, <1>1, <2>2, <3>1, AlongType
    <3> QED
      BY <1>0, <1>1, <3>2, PortType
  <2>5. /\ Way(d, p) = {}
        /\ \A w \in Downstream(d, p) : power[w] = "on" /\ NextPower(w) = "on"
    BY <1>1, <1>2, <2>4, GoesOff
  <2>6. ASSUME NEW w \in Downstream(d, p) PROVE w \in Downstream(v, p)' /\ w \in Router
    <3>1. /\ w \in Ahead(d, p) /\ w \in Router /\ Ahead(d, p) \subseteq Ahead(v, p)
          /\ \A t \in Ahead(d, p) : w \in Ahead(t, p) => power[t] = "off"
      BY <1>0, <1>1, <1>6, AheadAlong DEF Downstream
    <3>2. power'[w] = "on"
      BY <2>5, <3>1, PowerIs
    <3>3. ASSUME NEW t \in Ahead(v, p), w \in Ahead(t, p) PROVE power'[t] = "off"
      <4>1. t \in Router
        BY <1>0, AheadAlong
      <4>2. CASE t = d
        BY <4>2
      <4>3. CASE t \in Ahead(d, p)
        BY <3>1, <3>3, <4>1, <4>3, PowerIs
      <4>4. CASE t # d /\ t \notin Ahead(d, p)
        <5>1. ~(Along(t, p) > Along(d, p)) /\ Along(t, p) # Along(d, p)
          BY <1>0, <1>6, <4>4, AheadAlong
        <5>2. Along(d, p) > Along(t, p)
          BY <1>0, <1>1, <4>1, <5>1, AlongBack
        <5>3. d \in Ahead(t, p)
          BY <1>0, <1>6, <5>2, AheadAlong
        <5> QED
          BY <4>1, <5>3, PowerIs DEF Downstream
      <4> QED
        BY <4>2, <4>3, <4>4
    <3> QED
      BY <3>1, <3>2, <3>3 DEF Downstream
  <2>7. s \in Stretch(d, p)
    <3>1. \A w \in Downstream(d, p) : s \notin Ahead(w, p)
      BY <2>6 DEF Stretch
    <3> QED
      BY <2>3, <3>1 DEF Stretch
  <2>8. q \in MeshPorts(s)
    BY <1>0, <1>1, <2>1, <2>7, StretchBack, PortType
  <2>9. Slot(s, k, q) = NoMsg
    <3>1. [msg |-> Slot(s, k, q), at |-> At(s, k, p)] \notin Way(d, p)
      BY <2>5
    <3> QED
      BY <2>7, <3>1, InWay
  <2>10. power'[s] = power[s]
    <3>1. power[s] # "off" => s \in Downstream(d, p)
      BY <1>0, <1>1, <2>7, StretchIs
    <3> QED
      BY <2>1, <2>5, <3>1, PowerIs
  <2> HIDE DEF q
  <2> QED
    BY <1>7, <2>1, <2>8, <2>9, <2>10
<1>9. d \in Stretch(v, p)'
  <2>1. ASSUME NEW t \in Downstream(v, p)' PROVE d \notin Ahead(t, p)
    <3>1. t \in Ahead(v, p) /\ power'[t] # "off" /\ t \in Router
      BY <1>0, AheadAlong DEF Downstream
    <3>2. power[t] # "off"
      BY <3>1, PowerIs
    <3> QED
      BY <3>1, <3>2 DEF Downstream
  <2> QED
    BY <1>6, <2>1 DEF Stretch
<1> DEFINE f == [msg |-> out'[d][q], at |-> At(d, 2, p)]
<1>10. /\ out'[d][q] # NoMsg /\ out'[d][q].src = "off" /\ out'[d][q].done = FALSE
  <2> HIDE DEF q
  <2> QED
    BY <1>1, <1>2, Announced
<1>11. Slot(d, 2, q)' = out'[d][q]
  <2>1. 2 \in 0 .. 2
    OBVIOUS
  <2> HIDE DEF q
  <2> QED
    BY <1>1, <1>2, <1>7, <2>1
<1>12. f \in Way(v, p)'
  BY <1>9, <1>10, <1>11 DEF Way
<1>13. ASSUME NEW e \in Way(v, p)' PROVE (e \in Way(v, p) \/ e = f) /\ e.at <= f.at
  <2>1. PICK s \in Stretch(v, p)', k \in 0 .. 2 : e = [msg |-> Slot(s, k, q)', at |-> At(s, k, p)] /\ e.msg # NoMsg
    BY DEF Way
  <2>2. s \in Stretch(v, p)
    BY <1>8, <2>1
  <2>3. s \in Router /\ q \in MeshPorts(s) /\ Along(s, p) <= Along(d, p)
    BY <1>0, <1>1, <2>2, StretchBack, StretchIs, PortType
  <2>4. Slot(s, k, q)' = IF k = 2 /\ power'[s] # power[s] THEN out'[s][q] ELSE Slot(s, k, q)
    BY <1>7, <2>3
  <2>5. e.at <= f.at
    BY <1>0, <1>1, <2>1, <2>3, AlongBack DEF At
  <2>6. CASE k = 2 /\ power'[s] # power[s]
    <3>1. power[s] # "off"
      BY <2>3, <2>6, PowerIs
    <3>2. s \in Downstream(v, p)
      BY <1>0, <2>2, <3>1, StretchIs
    <3>3. s = d
      BY <1>0, <3>2, DownstreamUnique
    <3> QED
      BY <2>1, <2>4, <2>5, <2>6, <3>3
  <2>7. CASE ~(k = 2 /\ power'[s] # power[s])
    <3>1. Slot(s, k, q) # NoMsg /\ e = [msg |-> Slot(s, k, q), at |-> At(s, k, p)]
      BY <2>1, <2>4, <2>7
    <3> QED
      BY <2>2, <2>5, <3>1, InWay
  <2> QED
    BY <2>6, <2>7
<1>14. f.msg.src = "off" /\ f.msg.done = FALSE
  BY <1>10
<1> HIDE DEF f
<1> QED
  BY <1>4, <1>5, <1>12, <1>13, <1>14

LEMMA PowerMerged ==
  ASSUME KInv, ConsentInv, PowerStateEvaluate, NoWakeup', NEW v \in Router, power'[v] # "off", NEW p \in MeshPorts(v),
         NEW d \in Downstream(v, p), power'[d] = "off"
  PROVE  NewsInv(v, p)' /\ RespInv(v, p)' /\ DoneInv(v, p)' /\ TagInv(v, p)' /\ GoneInv(v, p)'
<1>1. power'[v] = "on" /\ p \in sent[v] /\ down[v][p] = "draining" /\ ~Hears(v, p)
  BY PowerMerge
<1>2. PICK f \in Way(v, p)' :
        /\ f.msg.src = "off" /\ f.msg.done = FALSE
        /\ \A e \in Way(v, p)' : (e \in Way(v, p) \/ e = f) /\ e.at <= f.at
  BY PowerMerge
<1>3. /\ sent' = sent /\ down' = down /\ power[v] # "off" /\ p \in Port /\ DoneInv(v, p)
  BY PowerIs, PortType, ConsentInvIs
<1>4. \A e \in Way(v, p) : e.msg.src = "none" /\ e.at \in Int
  BY <1>1, <1>3, WayIs DEF Hears
<1>5. f.at \in Int
  <2>1. PICK s \in Stretch(v, p)', k \in 0 .. 2 : f.at = At(s, k, p)
    BY DEF Way
  <2>2. s \in Router
    BY <1>3, AheadAlong DEF Stretch
  <2> QED
    BY <1>3, <2>1, <2>2, AlongBack DEF At
<1>6. \A e \in Way(v, p)' : e.msg.src \in {"none", "off"} /\ (e.msg.src = "off" => e = f)
  BY <1>2, <1>4
<1>7. NewsInv(v, p)'
  <2>1. \A e \in Way(v, p)' : e.at <= f.at /\ e.at \in Int
    BY <1>2, <1>4, <1>5
  <2> QED
    BY <1>1, <1>3, <1>5, <1>6, <2>1 DEF NewsInv
<1>8. RespInv(v, p)'
  BY <1>1, <1>3 DEF RespInv
<1>9. DoneInv(v, p)'
  <2>1. ASSUME NEW e \in Way(v, p)', e.msg.done PROVE e.msg.hid <= reqHid'[v][p]
    <3>1. e \in Way(v, p)
      BY <1>2, <2>1
    <3>2. e.msg.hid <= reqHid[v][p] /\ reqHid'[v][p] = reqHid[v][p]
      <4>1. power'[v] = power[v]
        <5>1. power[v] \in {"on", "draining"}
          BY <1>3, PowerIs
        <5>2. power[v] = "draining" => FALSE
          <6>1. d \in Router /\ v \in Downstream(d, Opp(p)) /\ Opp(p) \in MeshPorts(d)
            BY <1>3, Facing
          <6>2. PowersOff(d) /\ phase = "power"
            BY <1>3, <6>1, Decides, PowerIs, Facing
          <6> QED
            BY <6>1, <6>2, GoesOff
        <5> QED
          BY <1>1, <5>1, <5>2
      <4> QED
        <5>1. reqHid'[v][p] = reqHid[v][p]
          BY <4>1, Announced
        <5>2. e.msg.hid <= reqHid[v][p]
          BY <1>3, <2>1, <3>1 DEF DoneInv
        <5> QED
          BY <5>1, <5>2
    <3> QED
      BY <3>2
  <2> QED
    BY <1>1, <2>1 DEF DoneInv
<1>10. TagInv(v, p)'
  BY <1>1 DEF TagInv
<1>11. GoneInv(v, p)'
  <2>1. \A e \in Way(v, p)' : f.at >= e.at
    BY <1>2, <1>4, <1>5
  <2> QED
    BY <1>2, <2>1 DEF GoneInv
<1> QED
  BY <1>7, <1>8, <1>9, <1>10, <1>11

LEMMA ConsentInvNext ==
  ASSUME NoWakeup',
         \A r \in Router : EarlyInv(r)' /\ StartInv(r)',
         \A r \in Router : \A p \in MeshPorts(r) : LegalInv(r, p)' /\ IdInv(r, p)' /\ NbrInv(r, p)',
         \A u \in Router : power'[u] # "off" => \A p \in MeshPorts(u) :
           NewsInv(u, p)' /\ RespInv(u, p)' /\ DoneInv(u, p)' /\ TagInv(u, p)' /\ GoneInv(u, p)'
  PROVE  ConsentInv'
  BY DEF ConsentInv, Local, Link, Path

LEMMA PowerConsent ==
  ASSUME KInv, ConsentInv, PowerStateEvaluate, NoWakeup'
  PROVE  ConsentInv'
<1>1. \A r \in Router : EarlyInv(r)' /\ StartInv(r)'
  BY PowerLocal
<1>2. \A r \in Router : \A p \in MeshPorts(r) : LegalInv(r, p)' /\ IdInv(r, p)' /\ NbrInv(r, p)'
  BY PowerLink
<1>3. ASSUME NEW u \in Router, power'[u] # "off", NEW p \in MeshPorts(u)
      PROVE  NewsInv(u, p)' /\ RespInv(u, p)' /\ DoneInv(u, p)' /\ TagInv(u, p)' /\ GoneInv(u, p)'
  <2>1. CASE \A d \in Downstream(u, p) : power'[d] # "off"
    BY <1>3, <2>1, PowerNews, PowerDone
  <2>2. CASE \E d \in Downstream(u, p) : power'[d] = "off"
    BY <1>3, <2>2, PowerMerged
  <2> QED
    BY <2>1, <2>2
<1> QED
  BY <1>1, <1>2, <1>3, ConsentInvNext

-----------------------------------------------------------------------------
(* WriteOutputs. *)

LEMMA NbrBack ==
  ASSUME NEW t \in Router, NEW q \in Port
  PROVE  Nbr(Nbr(t, q), Opp(q)) = t
<1> USE KAssumption DEF Router, Coord, Port, Nbr, Opp, Succ, Pred
<1>0. PICK i \in Coord, j \in Coord : t = <<i, j>>
  OBVIOUS
<1>1. q = 0 \/ q = 1 \/ q = 2 \/ q = 3
  OBVIOUS
<1> QED
  BY <1>0, <1>1

LEMMA WriteIs ==
  ASSUME WriteOutputs
  PROVE  /\ phase = "write" /\ phase' = "read" /\ wire' = out /\ avail' = wire
         /\ out' = [r \in Router |-> [p \in Port |-> NoMsg]] /\ flitAvail' = flitWire
         /\ UNCHANGED <<power, down, nbr, logical, tags, sent, reqHid, respHid, active, occupied>>
         /\ \A u, p : Downstream(u, p)' = Downstream(u, p) /\ Stretch(u, p)' = Stretch(u, p)
<1>1. /\ phase = "write" /\ phase' = "read" /\ wire' = out /\ avail' = wire
      /\ out' = [r \in Router |-> [p \in Port |-> NoMsg]] /\ flitAvail' = flitWire
      /\ UNCHANGED <<power, down, nbr, logical, tags, sent, reqHid, respHid, active, occupied>>
  BY DEF WriteOutputs, ctrl
<1>2. \A u, p : Downstream(u, p)' = Downstream(u, p)
  BY <1>1 DEF Downstream
<1>3. \A u, p : Stretch(u, p)' = Stretch(u, p)
  BY <1>2 DEF Stretch
<1> QED
  BY <1>1, <1>2, <1>3

LEMMA WriteLink ==
  ASSUME KInv, ConsentInv, WriteOutputs, NEW r \in Router, NEW p \in MeshPorts(r)
  PROVE  LegalInv(r, p)' /\ IdInv(r, p)' /\ NbrInv(r, p)'
<1> DEFINE n == Nbr(r, p)
<1>1. p \in Port /\ n \in Router /\ Opp(p) \in Port
  BY MeshLink
<1>2. LegalInv(r, p) /\ IdInv(r, p) /\ NbrInv(r, p)
  BY ConsentInvIs
<1>3. UNCHANGED <<power, down, nbr, logical>> /\ phase = "write" /\ phase' = "read" /\ wire' = out /\ avail' = wire
      /\ out' = [i \in Router |-> [j \in Port |-> NoMsg]]
  BY WriteIs
<1>4. /\ Arrived(r, p) = NoMsg /\ Arrived(r, p)' = Coming(r, p)
      /\ Coming(r, p)' = Queued(r, p) /\ Queued(r, p)' = NoMsg
  BY <1>1, <1>3 DEF Arrived, Arriving, Coming, Queued
<1>5. Known(r, p)' = Known(r, p) /\ Known1(r, p) = Known(r, p)
  BY <1>3, <1>4, AfterNone DEF Known1, Known
<1>6. Known1(r, p)' = Known2(r, p)
  BY <1>4, <1>5 DEF Known1, Known2
<1>7. Known2(r, p)' = Known3(r, p)
  BY <1>4, <1>6 DEF Known2, Known3
<1>8. Noted1(r, p) = nbr[r][p] /\ Noted1(r, p)' = Noted2(r, p) /\ Noted2(r, p)' = Noted3(r, p)
      /\ Noted3(r, p)' = Noted3(r, p)
  <2>1. Noted1(r, p) = nbr[r][p]
    BY <1>4, MessageType DEF Noted1, Noted
  <2>2. Noted1(r, p)' = Noted2(r, p)
    BY <1>3, <1>4, <2>1 DEF Noted1, Noted2
  <2>3. Noted2(r, p)' = Noted3(r, p)
    BY <1>4, <2>2 DEF Noted2, Noted3
  <2>4. Noted3(r, p)' = Noted3(r, p)
    <3>1. Noted3(r, p)' = Noted(NoMsg, n, Noted3(r, p))
      BY <1>4, <2>3 DEF Noted3
    <3> QED
      BY <3>1, MessageType DEF Noted
  <2> QED
    BY <2>1, <2>2, <2>3, <2>4
<1>9. LegalInv(r, p)'
  <2>1. \A d : Legal(NoMsg, d)
    BY MessageType DEF Legal
  <2>2. Known(r, p).down = down[r][p]
    BY DEF Known
  <2> QED
    BY <1>2, <1>3, <1>4, <1>5, <1>6, <1>7, <2>1, <2>2 DEF LegalInv
<1>10. IdInv(r, p)'
  <2>1. By(NoMsg, n, p)
    BY MessageType DEF By
  <2> QED
    BY <1>2, <1>4, <2>1 DEF IdInv
<1>11. NbrInv(r, p)'
  <2>1. \A b : Speaks(NoMsg, n, b)
    BY MessageType DEF Speaks
  <2> QED
    BY <1>2, <1>3, <1>4, <1>8, <2>1 DEF NbrInv
<1> QED
  BY <1>9, <1>10, <1>11

(* Everything moves on by one place. *)
LEMMA WriteWay ==
  ASSUME KInv, WriteOutputs, NEW u \in Router, NEW p \in Port
  PROVE  /\ \A e \in Way(u, p)' : \E f \in Way(u, p) : f.msg = e.msg /\ e.at = f.at - 1
         /\ \A e \in Way(u, p) : \E f \in Way(u, p)' : f.msg = e.msg /\ f.at = e.at - 1
<1> DEFINE q == Opp(p)
<1>1. ASSUME NEW s \in Stretch(u, p)
      PROVE  /\ s \in Router /\ q \in Port
             /\ Slot(s, 0, q)' = Slot(s, 1, q) /\ Slot(s, 1, q)' = Slot(s, 2, q)
             /\ Slot(s, 2, q)' = NoMsg /\ Slot(s, 0, q) = NoMsg
  <2>1. s \in Router /\ q \in Port
    BY StretchIs, OppType
  <2> QED
    BY <2>1, WriteIs DEF Slot
<1>2. Stretch(u, p)' = Stretch(u, p)
  BY WriteIs
<1>3. ASSUME NEW e \in Way(u, p)' PROVE \E f \in Way(u, p) : f.msg = e.msg /\ e.at = f.at - 1
  <2>1. PICK s \in Stretch(u, p), k \in 0 .. 2 : e = [msg |-> Slot(s, k, q)', at |-> At(s, k, p)] /\ e.msg # NoMsg
    BY <1>2 DEF Way
  <2>2. k # 2
    BY <1>1, <2>1
  <2>3. k + 1 \in 0 .. 2 /\ Slot(s, k, q)' = Slot(s, k + 1, q)
    BY <1>1, <2>2
  <2>4. [msg |-> Slot(s, k + 1, q), at |-> At(s, k + 1, p)] \in Way(u, p)
    BY <2>1, <2>3, InWay
  <2>5. At(s, k, p) = At(s, k + 1, p) - 1
    BY <1>1, AlongBack DEF At
  <2> QED
    BY <2>1, <2>3, <2>4, <2>5
<1>4. ASSUME NEW e \in Way(u, p) PROVE \E f \in Way(u, p)' : f.msg = e.msg /\ f.at = e.at - 1
  <2>1. PICK s \in Stretch(u, p), k \in 0 .. 2 : e = [msg |-> Slot(s, k, q), at |-> At(s, k, p)]
    BY WayIs
  <2>2. e.msg # NoMsg
    BY WayIs
  <2>3. k # 0
    BY <1>1, <2>1, <2>2
  <2>4. k - 1 \in 0 .. 2 /\ Slot(s, k - 1, q)' = Slot(s, k, q)
    BY <1>1, <2>3
  <2> DEFINE f == [msg |-> Slot(s, k - 1, q)', at |-> At(s, k - 1, p)]
  <2>5. f.msg = e.msg /\ f.msg # NoMsg
    BY <2>1, <2>2, <2>4
  <2>6. f \in Way(u, p)'
    BY <1>2, <2>4, <2>5 DEF Way
  <2>7. f.at = e.at - 1
    BY <1>1, <2>1, AlongBack DEF At
  <2> QED
    BY <2>5, <2>6, <2>7
<1> QED
  BY <1>3, <1>4

LEMMA WriteFlits ==
  ASSUME KInv, ConsentInv, WriteOutputs, NEW u \in Router, NEW p \in Port, NEW g \in Downstream(u, p),
         <<g, Opp(p)>> \notin active
  PROVE  \A y \in Flits(u, p)' : y + 1 \in Flits(u, p)
<1> DEFINE q == Opp(p)
<1>1. Stretch(u, p)' = Stretch(u, p) /\ flitAvail' = flitWire
  BY WriteIs
<1>2. SUFFICES ASSUME NEW y \in Flits(u, p)' PROVE y + 1 \in Flits(u, p)
  OBVIOUS
<1>3. PICK s \in Stretch(u, p) : \/ y = At(s, 0, p) /\ <<s, q>> \in flitAvail'
                                 \/ y = At(s, 1, p) /\ <<s, q>> \in flitWire'
  BY <1>1 DEF Flits
<1>4. s \in Router /\ q \in Port /\ Opp(q) = p /\ s \in Ahead(u, p) /\ Along(s, p) \in Int
  BY StretchIs, OppType, AlongBack
<1>5. CASE y = At(s, 0, p) /\ <<s, q>> \in flitAvail'
  <2>1. y + 1 = At(s, 1, p)
    BY <1>4, <1>5 DEF At
  <2> QED
    BY <1>1, <1>3, <1>5, <2>1 DEF Flits
<1>6. CASE y = At(s, 1, p) /\ <<s, q>> \in flitWire'
  <2>1. <<s, q>> \in active \cup FliesOver
    BY <1>6 DEF WriteOutputs
  <2>2. <<s, q>> \notin active
    <3>1. ASSUME <<s, q>> \in active PROVE FALSE
      <4>1. power[s] # "off"
        BY <1>4, <3>1, ConsentInvIs DEF StartInv
      <4>2. s = g
        BY <4>1, StretchIs, DownstreamUnique
      <4> QED
        BY <3>1, <4>2
    <3> QED
      BY <3>1
  <2>3. PICK m \in flitAvail : power[Nbr(m[1], m[2])] \in Bypassed /\ <<s, q>> = <<Nbr(m[1], m[2]), m[2]>>
    BY <2>1, <2>2 DEF FliesOver
  <2>4. m \in Router \X Port
    BY DEF KInv, TypeOK
  <2> DEFINE t == m[1]
  <2>5. t \in Router /\ m = <<t, q>> /\ Nbr(t, q) = s
    BY <2>3, <2>4
  <2> HIDE DEF t
  <2>6. power[s] = "off"
    BY <1>4, <2>3, <2>5, ConsentInvIs DEF Bypassed, NoWakeup
  <2>7. Nbr(s, p) = t
    BY <1>4, <2>5, NbrBack
  <2>8. Along(s, p) < Along(g, p)
    <3>1. Along(s, p) <= Along(g, p) /\ g \in Ahead(u, p) /\ g \in Router /\ power[g] # "off"
      BY <1>4, StretchIs, AheadAlong DEF Downstream
    <3>2. Along(s, p) # Along(g, p)
      BY <1>4, <2>6, <3>1, AheadAlong
    <3> QED
      BY <1>4, <3>1, <3>2, AlongBack
  <2>9. t \in Stretch(u, p) /\ Along(t, p) = Along(s, p) + 1
    BY <1>4, <2>7, <2>8, Between DEF Line
  <2>10. y + 1 = At(t, 0, p)
    BY <1>4, <1>6, <2>9 DEF At
  <2>11. <<t, Opp(p)>> \in flitAvail
    BY <2>5
  <2> QED
    BY <2>9, <2>10, <2>11 DEF Flits
<1> QED
  BY <1>3, <1>5, <1>6

LEMMA WriteAgreed ==
  ASSUME KInv, ConsentInv, WriteOutputs, NEW u \in Router, power[u] # "off", NEW p \in Port, NEW g \in Downstream(u, p),
         NEW x \in Int, Agreed(u, p, g, x), NEW z \in {x - 1, x}
  PROVE  Agreed(u, p, g, z)'
<1>1. /\ power[g] = "on" /\ Opp(p) \in sent[g] /\ <<g, Opp(p)>> \notin active /\ ~Hears(g, Opp(p))
      /\ \A e \in Way(u, p) : e.at <= x
      /\ \A y \in Flits(u, p) : y < x
  BY AgreedIs
<1>2. /\ power'[g] = "on" /\ Opp(p) \in sent'[g] /\ <<g, Opp(p)>> \notin active'
  BY <1>1, WriteIs
<1>3. ~Hears(g, Opp(p))'
  <2>1. g \in Router /\ Opp(p) \in Port
    BY Facing
  <2>2. \A e \in Way(g, Opp(p))' : \E f \in Way(g, Opp(p)) : f.msg = e.msg
    BY <2>1, WriteWay
  <2> QED
    BY <1>1, <2>2 DEF Hears
<1>4. ASSUME NEW e \in Way(u, p)' PROVE e.at <= z
  <2>1. PICK f \in Way(u, p) : f.msg = e.msg /\ e.at = f.at - 1
    BY WriteWay
  <2>2. f.at \in Int /\ f.at <= x
    BY <1>1, WayIs
  <2> QED
    BY <2>1, <2>2
<1>5. ASSUME NEW y \in Flits(u, p)' PROVE y < z
  <2>1. y + 1 \in Flits(u, p)
    BY <1>1, WriteFlits
  <2>2. y + 1 < x
    BY <1>1, <2>1
  <2>3. y \in Int
    <3>1. PICK s \in Stretch(u, p) : y = At(s, 0, p) \/ y = At(s, 1, p)
      <4>1. Stretch(u, p)' = Stretch(u, p)
        BY WriteIs
      <4> QED
        BY <4>1 DEF Flits
    <3> QED
      BY <3>1, StretchIs, AlongBack DEF At
  <2> QED
    BY <2>2, <2>3
<1> QED
  BY <1>2, <1>3, <1>4, <1>5 DEF Agreed

LEMMA WritePath ==
  ASSUME KInv, ConsentInv, WriteOutputs, NEW u \in Router, power[u] # "off", NEW p \in MeshPorts(u)
  PROVE  NewsInv(u, p)' /\ RespInv(u, p)' /\ DoneInv(u, p)' /\ TagInv(u, p)' /\ GoneInv(u, p)'
<1>1. /\ p \in Port
      /\ NewsInv(u, p) /\ RespInv(u, p) /\ DoneInv(u, p) /\ TagInv(u, p) /\ GoneInv(u, p)
  BY ConsentInvIs, PortType
<1>2. /\ UNCHANGED <<power, down, tags, sent, reqHid, respHid>> /\ phase = "write"
      /\ Downstream(u, p)' = Downstream(u, p)
  BY WriteIs
<1>3. \A e \in Way(u, p)' : \E f \in Way(u, p) : f.msg = e.msg /\ e.at = f.at - 1 /\ f.at \in Int
  BY <1>1, WriteWay, WayIs
<1>4. \A e \in Way(u, p) : \E f \in Way(u, p)' : f.msg = e.msg /\ f.at = e.at - 1 /\ e.at \in Int
  BY <1>1, WriteWay, WayIs
<1>5. NewsInv(u, p)'
  <2>1. ASSUME NEW e \in Way(u, p)'
        PROVE  /\ e.msg.src = "off" => power[u] = "on" /\ p \in sent[u] /\ down[u][p] = "draining"
               /\ e.msg.src = "draining" => \E g \in Downstream(u, p) : e.msg.hid <= reqHid[g][Opp(p)]
    BY <1>1, <1>3 DEF NewsInv
  <2>2. ASSUME NEW e \in Way(u, p)', e.msg.src # "none", NEW f \in Way(u, p)', f.at > e.at
        PROVE  f.msg.src # "off" /\ (e.msg.src = "draining" /\ f.msg.src = "draining" => e.msg.hid < f.msg.hid)
    <3>1. PICK a \in Way(u, p) : a.msg = e.msg /\ e.at = a.at - 1 /\ a.at \in Int
      BY <1>3
    <3>2. PICK b \in Way(u, p) : b.msg = f.msg /\ f.at = b.at - 1 /\ b.at \in Int
      BY <1>3
    <3>3. b.at > a.at
      BY <2>2, <3>1, <3>2
    <3> QED
      BY <1>1, <2>2, <3>1, <3>2, <3>3 DEF NewsInv
  <2> QED
    BY <1>2, <2>1, <2>2 DEF NewsInv
<1>6. RespInv(u, p)'
  BY <1>1, <1>2, <1>3 DEF RespInv
<1>7. DoneInv(u, p)'
  <2>1. ASSUME NEW e \in Way(u, p)', e.msg.done
        PROVE  /\ e.msg.hid <= reqHid[u][p]
               /\ power[u] = "draining" /\ e.msg.hid = reqHid[u][p] =>
                    \/ \E g \in Downstream(u, p) : Agreed(u, p, g, e.at)'
                    \/ p \in {West, North} /\ \E f \in Way(u, p)' : f.msg.src = "draining" /\ f.at <= e.at
    <3>1. PICK a \in Way(u, p) : a.msg = e.msg /\ e.at = a.at - 1 /\ a.at \in Int
      BY <1>3
    <3>2. e.msg.hid <= reqHid[u][p]
      BY <1>1, <2>1, <3>1 DEF DoneInv
    <3>3. ASSUME power[u] = "draining", e.msg.hid = reqHid[u][p]
          PROVE  \/ \E g \in Downstream(u, p) : Agreed(u, p, g, e.at)'
                 \/ p \in {West, North} /\ \E f \in Way(u, p)' : f.msg.src = "draining" /\ f.at <= e.at
      <4>1. \/ \E g \in Downstream(u, p) : Agreed(u, p, g, a.at)
            \/ p \in {West, North} /\ \E f \in Way(u, p) : f.msg.src = "draining" /\ f.at <= a.at
        BY <1>1, <1>2, <2>1, <3>1, <3>3 DEF DoneInv, Overruled
      <4>2. ASSUME NEW g \in Downstream(u, p), Agreed(u, p, g, a.at) PROVE Agreed(u, p, g, e.at)'
        <5> DEFINE x == a.at
                   z == e.at
        <5>1. x \in Int /\ z \in {x - 1, x} /\ Agreed(u, p, g, x)
          BY <3>1, <4>2
        <5> HIDE DEF x, z
        <5>2. Agreed(u, p, g, z)'
          BY <1>1, <5>1, WriteAgreed
        <5> QED
          BY <5>2 DEF z
      <4>3. ASSUME NEW f \in Way(u, p), f.msg.src = "draining", f.at <= a.at
            PROVE  \E h \in Way(u, p)' : h.msg.src = "draining" /\ h.at <= e.at
        <5>1. PICK h \in Way(u, p)' : h.msg = f.msg /\ h.at = f.at - 1 /\ f.at \in Int
          BY <1>4
        <5>2. h.msg.src = "draining" /\ h.at <= e.at
          BY <3>1, <4>3, <5>1
        <5> QED
          BY <5>2
      <4> QED
        BY <4>1, <4>2, <4>3
    <3> QED
      BY <3>2, <3>3
  <2> QED
    BY <1>2, <2>1 DEF DoneInv
<1>8. TagInv(u, p)'
  <2>1. ASSUME power[u] = "draining", p \in tags[u], NEW g \in Downstream(u, p) PROVE Agreed(u, p, g, 0)'
    <3>1. Agreed(u, p, g, 0)
      BY <1>1, <1>2, <2>1 DEF TagInv, Overruled
    <3> QED
      BY <1>1, <3>1, WriteAgreed
  <2> QED
    BY <1>2, <2>1 DEF TagInv
<1>9. GoneInv(u, p)'
  <2>1. ASSUME Downstream(u, p) = {}, NEW e \in Way(u, p)'
        PROVE  \E f \in Way(u, p)' : f.msg.src = "off" /\ f.at >= e.at
    <3>1. PICK a \in Way(u, p) : a.msg = e.msg /\ e.at = a.at - 1 /\ a.at \in Int
      BY <1>3
    <3>2. PICK b \in Way(u, p) : b.msg.src = "off" /\ b.at >= a.at
      BY <1>1, <2>1 DEF GoneInv
    <3>3. PICK f \in Way(u, p)' : f.msg = b.msg /\ f.at = b.at - 1 /\ b.at \in Int
      BY <1>4
    <3>4. f.msg.src = "off" /\ f.at >= e.at
      BY <3>1, <3>2, <3>3
    <3> QED
      BY <3>4
  <2> QED
    BY <1>2, <2>1 DEF GoneInv
<1> QED
  BY <1>5, <1>6, <1>7, <1>8, <1>9

LEMMA WriteConsent ==
  ASSUME KInv, ConsentInv, WriteOutputs
  PROVE  ConsentInv'
<1>1. /\ UNCHANGED <<power, down, active, occupied>> /\ phase = "write" /\ phase' = "read"
  BY WriteIs
<1>2. ASSUME NEW r \in Router PROVE EarlyInv(r)' /\ StartInv(r)'
  <2>1. EarlyInv(r) /\ StartInv(r)
    BY ConsentInvIs
  <2>2. EarlyInv(r)'
    BY <1>1, <2>1 DEF EarlyInv
  <2>3. StartInv(r)'
    BY <1>1, <2>1 DEF StartInv
  <2> QED
    BY <2>2, <2>3
<1>3. \A r \in Router : \A p \in MeshPorts(r) : LegalInv(r, p)' /\ IdInv(r, p)' /\ NbrInv(r, p)'
  BY WriteLink
<1>4. \A u \in Router : power'[u] # "off" => \A p \in MeshPorts(u) :
        NewsInv(u, p)' /\ RespInv(u, p)' /\ DoneInv(u, p)' /\ TagInv(u, p)' /\ GoneInv(u, p)'
  BY <1>1, WritePath
<1>5. NoWakeup'
  BY <1>1, ConsentInvIs DEF NoWakeup
<1> QED
  BY <1>2, <1>3, <1>4, <1>5, ConsentInvNext

-----------------------------------------------------------------------------
(* Evaluate. *)

LEMMA EvalIs ==
  ASSUME KInv, ConsentInv, Evaluate
  PROVE  /\ phase = "eval" /\ phase' = "write"
         /\ UNCHANGED <<power, down, nbr, logical, tags, reqHid, respHid, wire, avail, flitWire, flitAvail>>
         /\ \A u, p : Downstream(u, p)' = Downstream(u, p) /\ Stretch(u, p)' = Stretch(u, p)
         /\ \A r \in Router : \A p \in Port :
              /\ <<r, p>> \in active' =>
                   /\ <<r, p>> \in active \/ (power[r] # "off" /\ down[r][p] = "on")
                   /\ r \in Gateable => r \in occupied'
              /\ p \in sent'[r] <=> p \in sent[r] \/ Responds(r, p, active')
              /\ ~Responds(r, p, active') => out'[r][p] = out[r][p]
              /\ Responds(r, p, active') =>
                   /\ power[r] \in {"on", "draining"} /\ down[r][p] = "draining"
                   /\ p \notin sent[r] /\ <<r, p>> \notin active' /\ p \in MeshPorts(r)
                   /\ out'[r][p].done = TRUE /\ out'[r][p].hid = respHid[r][p] /\ out'[r][p].id = r
                   /\ out'[r][p].src = out[r][p].src /\ out'[r][p].new = out[r][p].new
                   /\ out[r][p].src # "draining"
<1>1. /\ phase = "eval" /\ phase' = "write"
      /\ UNCHANGED <<power, down, nbr, logical, tags, reqHid, respHid, wire, avail, flitWire, flitAvail>>
  BY DEF Evaluate, chans
<1>2. \A u, p : Downstream(u, p)' = Downstream(u, p)
  BY <1>1 DEF Downstream
<1>3. \A u, p : Stretch(u, p)' = Stretch(u, p)
  BY <1>2 DEF Stretch
<1>4. PICK act \in SUBSET Traffic :
        /\ \A l \in act \ active : MayActivate(l)
        /\ active' = act
        /\ \E occ \in SUBSET {r \in Gateable : \E l \in Traffic : Nbr(l[1], l[2]) = r \/ l[1] = r} :
             /\ {l[1] : l \in act} \cap Gateable \subseteq occ
             /\ occ \subseteq occupied \cup {r \in Busy : power[r] \in Idle}
             /\ occupied' = occ
        /\ out' = [r \in Router |-> [p \in Port |->
                    IF Responds(r, p, act)
                    THEN [out[r][p] EXCEPT !.done = TRUE, !.hid = respHid[r][p], !.id = r]
                    ELSE out[r][p]]]
        /\ sent' = [r \in Router |-> sent[r] \cup {p \in Port : Responds(r, p, act)}]
  BY Zenon DEF Evaluate
<1>8. {l[1] : l \in act} \cap Gateable \subseteq occupied'
  BY <1>4
<1>5. ASSUME NEW r \in Router, NEW p \in Port, <<r, p>> \in active'
      PROVE  /\ <<r, p>> \in active \/ (power[r] # "off" /\ down[r][p] = "on")
             /\ r \in Gateable => r \in occupied'
  <2>1. <<r, p>> \in act /\ <<r, p>>[1] = r
    BY <1>4, <1>5
  <2>2. r \in {l[1] : l \in act}
    BY <2>1
  <2>3. <<r, p>> \in active \/ MayActivate(<<r, p>>)
    BY <1>4, <2>1
  <2>4. MayActivate(<<r, p>>) => power[r] # "off" /\ down[r][p] = "on"
    BY IdleType DEF MayActivate
  <2> QED
    BY <1>4, <1>8, <2>2, <2>3, <2>4
<1>6. ASSUME NEW r \in Router, NEW p \in Port
      PROVE  /\ p \in sent'[r] <=> p \in sent[r] \/ Responds(r, p, active')
             /\ ~Responds(r, p, active') => out'[r][p] = out[r][p]
  BY <1>4
<1>7. ASSUME NEW r \in Router, NEW p \in Port, Responds(r, p, active')
      PROVE  /\ power[r] \in {"on", "draining"} /\ down[r][p] = "draining"
             /\ p \notin sent[r] /\ <<r, p>> \notin active' /\ p \in MeshPorts(r)
             /\ out'[r][p].done = TRUE /\ out'[r][p].hid = respHid[r][p] /\ out'[r][p].id = r
             /\ out'[r][p].src = out[r][p].src /\ out'[r][p].new = out[r][p].new
             /\ out[r][p].src # "draining"
  <2>1. /\ power[r] \in {"on", "draining"} /\ down[r][p] \in {"draining", "wakeup"}
        /\ p \notin sent[r] /\ <<r, p>> \notin active'
    BY <1>7 DEF Responds, Idle
  <2>2. p \in MeshPorts(r)
    BY <2>1, PortType DEF KInv, Edge
  <2>3. down[r][p] = "draining"
    BY <2>1, <2>2, ConsentInvIs DEF LegalInv
  <2>4. out[r][p] \in Message
    BY DEF KInv, TypeOK
  <2>5. out'[r][p] = [out[r][p] EXCEPT !.done = TRUE, !.hid = respHid[r][p], !.id = r]
    BY <1>4, <1>7
  <2>6. /\ out'[r][p].done = TRUE /\ out'[r][p].hid = respHid[r][p] /\ out'[r][p].id = r
        /\ out'[r][p].src = out[r][p].src /\ out'[r][p].new = out[r][p].new
    BY <2>4, <2>5 DEF Message
  <2>7. out[r][p].src # "draining"
    BY <1>1, <2>1, <2>3, ConsentInvIs DEF StartInv
  <2> QED
    BY <2>1, <2>2, <2>3, <2>6, <2>7
<1> QED
  BY <1>1, <1>2, <1>3, <1>5, <1>6, <1>7

LEMMA EvalLink ==
  ASSUME KInv, ConsentInv, Evaluate, NEW r \in Router, NEW p \in MeshPorts(r)
  PROVE  LegalInv(r, p)' /\ IdInv(r, p)' /\ NbrInv(r, p)'
<1> DEFINE n == Nbr(r, p)
           q == Opp(p)
<1>1. p \in Port /\ n \in Router /\ q \in Port
  BY MeshLink
<1>2. LegalInv(r, p) /\ IdInv(r, p) /\ NbrInv(r, p)
  BY ConsentInvIs
<1>3. /\ phase = "eval" /\ phase' = "write" /\ UNCHANGED <<power, down, nbr, logical, wire, avail>>
  BY EvalIs
<1>4. /\ Arrived(r, p) = NoMsg /\ Arrived(r, p)' = NoMsg /\ Coming(r, p)' = Coming(r, p)
      /\ Queued(r, p) = out[n][q] /\ Queued(r, p)' = out'[n][q]
  BY <1>3 DEF Arrived, Coming, Queued
<1>5. Known1(r, p)' = Known1(r, p) /\ Noted1(r, p)' = Noted1(r, p)
  BY <1>3, <1>4 DEF Known1, Known, Noted1
<1>6. Known2(r, p)' = Known2(r, p) /\ Noted2(r, p)' = Noted2(r, p)
  BY <1>4, <1>5 DEF Known2, Noted2
<1>7. /\ Queued(r, p)'.src = Queued(r, p).src /\ Queued(r, p)'.new = Queued(r, p).new
      /\ \/ Queued(r, p)' = Queued(r, p)
         \/ Queued(r, p)'.id = n /\ power[n] # "off"
  <2> HIDE DEF n, q
  <2>1. /\ ~Responds(n, q, active') => out'[n][q] = out[n][q]
        /\ Responds(n, q, active') =>
             /\ power[n] \in {"on", "draining"} /\ out'[n][q].id = n
             /\ out'[n][q].src = out[n][q].src /\ out'[n][q].new = out[n][q].new
    BY <1>1, EvalIs
  <2>2. CASE Responds(n, q, active')
    BY <1>4, <2>1, <2>2
  <2>3. CASE ~Responds(n, q, active')
    BY <1>4, <2>1, <2>3
  <2> QED
    BY <2>2, <2>3
<1>8. LegalInv(r, p)'
  BY <1>2, <1>3, <1>4, <1>5, <1>6, <1>7 DEF LegalInv, Legal
<1>9. IdInv(r, p)'
  BY <1>2, <1>4, <1>7 DEF IdInv, By
<1>10. NbrInv(r, p)'
  <2>1. Speaks(Queued(r, p)', n, Noted2(r, p))
    BY <1>2, <1>7 DEF NbrInv, Speaks
  <2>2. Noted(Queued(r, p)', n, Noted2(r, p)) = power[n]
    <3>1. Noted(Queued(r, p), n, Noted2(r, p)) = power[n]
      BY <1>2 DEF NbrInv, Noted3
    <3>2. CASE Queued(r, p)' = Queued(r, p)
      BY <3>1, <3>2
    <3>3. CASE Queued(r, p)'.id = n /\ power[n] # "off"
      <4>1. Queued(r, p).new # "none" => Queued(r, p).id = n
        <5>1. Queued(r, p).new # "none" /\ Queued(r, p).id # n => Noted2(r, p) = "off" /\ Noted2(r, p) = power[n]
          BY <1>2, <3>1 DEF NbrInv, Speaks, Noted
        <5> QED
          BY <3>3, <5>1
      <4> QED
        BY <1>7, <3>1, <3>3, <4>1 DEF Noted
    <3> QED
      BY <1>7, <3>2, <3>3
  <2>3. Noted3(r, p)' = power[n]
    BY <1>6, <2>2 DEF Noted3
  <2> QED
    BY <1>2, <1>3, <1>4, <1>5, <1>6, <2>1, <2>3 DEF NbrInv
<1> QED
  BY <1>8, <1>9, <1>10

(* The answers are added to what the responding router sends. *)
LEMMA EvalWay ==
  ASSUME KInv, ConsentInv, Evaluate, NEW u \in Router, NEW p \in Port
  PROVE  /\ Flits(u, p)' = Flits(u, p)
         /\ \A e \in Way(u, p)' :
              \/ e \in Way(u, p)
              \/ \E g \in Downstream(u, p) :
                   /\ Responds(g, Opp(p), active') /\ e.at = 2 * Along(g, p) + 2
                   /\ e.msg.hid = respHid[g][Opp(p)] /\ e.msg.src # "draining"
                   /\ e.msg.src # "none" => \E f \in Way(u, p) : f.at = e.at /\ f.msg.src = e.msg.src
         /\ \A e \in Way(u, p) : \E f \in Way(u, p)' :
              f.at = e.at /\ f.msg.src = e.msg.src /\ (e.msg.src = "draining" => f = e)
<1> DEFINE q == Opp(p)
<1>0. Stretch(u, p)' = Stretch(u, p) /\ phase = "eval" /\ phase' = "write"
      /\ UNCHANGED <<flitWire, flitAvail, wire, power>>
  BY EvalIs
<1>1. Flits(u, p)' = Flits(u, p)
  BY <1>0 DEF Flits
<1>2. ASSUME NEW s \in Stretch(u, p)
      PROVE  /\ s \in Router /\ q \in Port
             /\ Slot(s, 0, q)' = NoMsg /\ Slot(s, 0, q) = NoMsg /\ Slot(s, 1, q)' = Slot(s, 1, q)
             /\ ~Responds(s, q, active') => Slot(s, 2, q)' = Slot(s, 2, q)
             /\ Responds(s, q, active') =>
                  /\ s \in Downstream(u, p)
                  /\ Slot(s, 2, q)'.done = TRUE /\ Slot(s, 2, q)'.hid = respHid[s][q]
                  /\ Slot(s, 2, q)'.src = Slot(s, 2, q).src /\ Slot(s, 2, q)'.new = Slot(s, 2, q).new
                  /\ Slot(s, 2, q).src # "draining"
  <2>1. s \in Router /\ q \in Port
    BY StretchIs, OppType
  <2> HIDE DEF q
  <2>2. Slot(s, 0, q)' = NoMsg /\ Slot(s, 0, q) = NoMsg /\ Slot(s, 1, q)' = Slot(s, 1, q)
        /\ Slot(s, 2, q) = out[s][q] /\ Slot(s, 2, q)' = out'[s][q]
    BY <1>0 DEF Slot
  <2>3. /\ ~Responds(s, q, active') => out'[s][q] = out[s][q]
        /\ Responds(s, q, active') =>
             /\ power[s] \in {"on", "draining"}
             /\ out'[s][q].done = TRUE /\ out'[s][q].hid = respHid[s][q]
             /\ out'[s][q].src = out[s][q].src /\ out'[s][q].new = out[s][q].new
             /\ out[s][q].src # "draining"
    BY <2>1, EvalIs
  <2>4. power[s] \in {"on", "draining"} => s \in Downstream(u, p)
    BY StretchIs
  <2> QED
    BY <2>1, <2>2, <2>3, <2>4
<1>3. ASSUME NEW e \in Way(u, p)', e \notin Way(u, p)
      PROVE  \E g \in Downstream(u, p) :
               /\ Responds(g, q, active') /\ e.at = 2 * Along(g, p) + 2
               /\ e.msg.hid = respHid[g][q] /\ e.msg.src # "draining"
               /\ e.msg.src # "none" => \E f \in Way(u, p) : f.at = e.at /\ f.msg.src = e.msg.src
  <2>1. PICK s \in Stretch(u, p), k \in 0 .. 2 : e = [msg |-> Slot(s, k, q)', at |-> At(s, k, p)] /\ e.msg # NoMsg
    BY <1>0 DEF Way
  <2>2. Slot(s, k, q)' # Slot(s, k, q)
    <3>1. SUFFICES ASSUME Slot(s, k, q)' = Slot(s, k, q) PROVE FALSE
      OBVIOUS
    <3>2. Slot(s, k, q) # NoMsg /\ e = [msg |-> Slot(s, k, q), at |-> At(s, k, p)]
      BY <2>1, <3>1
    <3> QED
      BY <1>3, <3>2, InWay
  <2>3. k = 2 /\ Responds(s, q, active') /\ s \in Downstream(u, p)
    <3>1. k = 0 \/ k = 1 \/ k = 2
      OBVIOUS
    <3> HIDE DEF q
    <3> QED
      BY <1>2, <2>2, <3>1
  <2>4. e.at = 2 * Along(s, p) + 2
    BY <2>1, <2>3 DEF At
  <2>5. e.msg.hid = respHid[s][q] /\ e.msg.src = Slot(s, 2, q).src /\ Slot(s, 2, q).src # "draining"
    BY <1>2, <2>1, <2>3
  <2>6. ASSUME e.msg.src # "none" PROVE \E f \in Way(u, p) : f.at = e.at /\ f.msg.src = e.msg.src
    <3> DEFINE f == [msg |-> Slot(s, 2, q), at |-> At(s, 2, p)]
    <3>1. Slot(s, 2, q) # NoMsg
      BY <2>5, <2>6, MessageType
    <3>2. f \in Way(u, p)
      <4>1. 2 \in 0 .. 2
        OBVIOUS
      <4>2. [msg |-> Slot(s, 2, q), at |-> At(s, 2, p)] \in Way(u, p)
        BY <3>1, <4>1, InWay
      <4> QED
        BY <4>2
    <3>3. f.at = e.at /\ f.msg.src = e.msg.src
      BY <2>1, <2>3, <2>5
    <3> QED
      BY <3>2, <3>3
  <2> QED
    BY <2>3, <2>4, <2>5, <2>6
<1>4. ASSUME NEW e \in Way(u, p)
      PROVE  \E f \in Way(u, p)' : f.at = e.at /\ f.msg.src = e.msg.src /\ (e.msg.src = "draining" => f = e)
  <2>1. PICK s \in Stretch(u, p), k \in 0 .. 2 : e = [msg |-> Slot(s, k, q), at |-> At(s, k, p)]
    BY WayIs
  <2>2. e.msg # NoMsg
    BY WayIs
  <2> DEFINE f == [msg |-> Slot(s, k, q)', at |-> At(s, k, p)]
  <2>3. /\ Slot(s, k, q)' # NoMsg /\ Slot(s, k, q)'.src = Slot(s, k, q).src
        /\ Slot(s, k, q).src = "draining" => Slot(s, k, q)' = Slot(s, k, q)
    <3>1. (k = 0 \/ k = 1 \/ k = 2) /\ Slot(s, k, q) # NoMsg
      BY <2>1, <2>2
    <3>2. CASE Slot(s, k, q)' = Slot(s, k, q)
      BY <3>1, <3>2
    <3>3. CASE Slot(s, k, q)' # Slot(s, k, q)
      <4> HIDE DEF q
      <4>1. k = 2 /\ Responds(s, q, active')
        BY <1>2, <3>1, <3>3
      <4>2. Slot(s, 2, q)'.done = TRUE
        BY <1>2, <4>1
      <4>3. Slot(s, 2, q)' # NoMsg
        BY <4>2 DEF NoMsg
      <4> QED
        BY <1>2, <4>1, <4>3
    <3> QED
      BY <3>2, <3>3
  <2>4. f \in Way(u, p)'
    BY <1>0, <2>3 DEF Way
  <2>5. f.at = e.at /\ f.msg.src = e.msg.src /\ (e.msg.src = "draining" => f = e)
    BY <2>1, <2>3
  <2> QED
    BY <2>4, <2>5
<1> QED
  BY <1>1, <1>3, <1>4

LEMMA WayType ==
  ASSUME KInv, NEW u \in Router, NEW p \in Port, NEW e \in Way(u, p)
  PROVE  e.msg \in Message /\ e.msg.hid \in Nat
<1>1. PICK s \in Stretch(u, p), k \in 0 .. 2 : e = [msg |-> Slot(s, k, Opp(p)), at |-> At(s, k, p)]
  BY WayIs
<1>2. s \in Router /\ Opp(p) \in Port
  BY StretchIs, OppType
<1>3. Slot(s, k, Opp(p)) \in Message
  BY <1>2, MessageType DEF KInv, TypeOK, Slot
<1> QED
  BY <1>1, <1>3, MessageType

(* Nobody starts to be heard of in Evaluate. *)
LEMMA EvalQuiet ==
  ASSUME KInv, ConsentInv, Evaluate, NEW u \in Router, NEW p \in Port, ~Hears(u, p)
  PROVE  ~Hears(u, p)'
<1> SUFFICES ASSUME NEW e \in Way(u, p)', e.msg.src # "none" PROVE FALSE
  BY DEF Hears
<1>1. \E f \in Way(u, p) : f.msg.src = e.msg.src
  BY EvalWay
<1> QED
  BY <1>1 DEF Hears

(* A router that has agreed does not send any more. *)
LEMMA EvalAgreed ==
  ASSUME KInv, ConsentInv, Evaluate, NEW u \in Router, power[u] = "draining",
         NEW p \in Port, NEW g \in Downstream(u, p), NEW x, Agreed(u, p, g, x)
  PROVE  Agreed(u, p, g, x)'
<1> DEFINE q == Opp(p)
<1>1. /\ power[g] = "on" /\ q \in sent[g] /\ <<g, q>> \notin active /\ ~Hears(g, q)
      /\ \A e \in Way(u, p) : e.at <= x
      /\ \A y \in Flits(u, p) : y < x
  BY AgreedIs
<1>2. g \in Router /\ q \in Port /\ u \in Downstream(g, q)
  BY Facing
<1> HIDE DEF q
<1>3. power'[g] = "on" /\ q \in sent'[g]
  BY <1>1, <1>2, EvalIs
<1>4. down[g][q] = "draining"
  BY <1>1, <1>2, PathKnows, ConsentInvIs
<1>5. <<g, q>> \notin active'
  BY <1>1, <1>2, <1>4, EvalIs
<1>6. ~Hears(g, q)'
  BY <1>1, <1>2, EvalQuiet
<1>7. ASSUME NEW e \in Way(u, p)' PROVE e.at <= x
  <2>1. ASSUME NEW h \in Downstream(u, p), Responds(h, q, active') PROVE FALSE
    <3>1. h = g
      BY DownstreamUnique
    <3> QED
      BY <1>1, <1>2, <2>1, <3>1 DEF Responds
  <2>2. e \in Way(u, p)
    BY <2>1, EvalWay DEF q
  <2> QED
    BY <1>1, <2>2
<1>8. \A y \in Flits(u, p)' : y < x
  BY <1>1, EvalWay
<1> QED
  BY <1>3, <1>5, <1>6, <1>7, <1>8 DEF Agreed, q

(* An answer that is given now. *)
LEMMA EvalAnswers ==
  ASSUME KInv, ConsentInv, Evaluate, NEW u \in Router, power[u] # "off", NEW p \in MeshPorts(u),
         NEW g \in Downstream(u, p), Responds(g, Opp(p), active'), NEW x, x = 2 * Along(g, p) + 2
  PROVE  /\ respHid[g][Opp(p)] <= reqHid[u][p]
         /\ power[u] = "draining" /\ respHid[g][Opp(p)] = reqHid[u][p] =>
              \/ Agreed(u, p, g, x)'
              \/ p \in {West, North} /\ \E f \in Way(u, p)' : f.msg.src = "draining" /\ f.at <= x
<1> DEFINE q == Opp(p)
<1>1. /\ g \in Router /\ q \in MeshPorts(g) /\ q \in Port /\ p \in Port /\ Opp(q) = p
      /\ u \in Downstream(g, q) /\ power[g] # "off" /\ power[u] # "off"
  BY Facing, PortType
<1> HIDE DEF q
<1>2. /\ power[g] \in {"on", "draining"} /\ down[g][q] = "draining" /\ q \notin sent[g]
      /\ <<g, q>> \notin active' /\ q \in sent'[g] /\ phase = "eval" /\ power' = power
  <2>1. Responds(g, q, active')
    BY DEF q
  <2> QED
    BY <1>1, <2>1, EvalIs
<1>3. \A h \in Downstream(g, q) : h = u
  BY <1>1, DownstreamUnique
<1>4. RespInv(g, q) /\ NewsInv(g, q)
  BY <1>1, ConsentInvIs
<1>5. /\ respHid[g][q] <= reqHid[u][p]
      /\ \A e \in Way(g, q) : e.msg.src = "draining" => respHid[g][q] < e.msg.hid
  BY <1>1, <1>2, <1>3, <1>4 DEF RespInv
<1>6. ASSUME power[u] = "draining", respHid[g][q] = reqHid[u][p]
      PROVE  \/ Agreed(u, p, g, x)'
             \/ p \in {West, North} /\ \E f \in Way(u, p)' : f.msg.src = "draining" /\ f.at <= x
  <2>1. ASSUME NEW e \in Way(g, q), e.msg.src = "draining" PROVE FALSE
    <3>1. respHid[g][q] < e.msg.hid /\ e.msg.hid <= reqHid[u][p]
      BY <1>1, <1>3, <1>4, <1>5, <2>1 DEF NewsInv
    <3>2. e.msg.hid \in Nat /\ respHid[g][q] \in Nat /\ reqHid[u][p] \in Nat
      BY <1>1, WayType DEF KInv, TypeOK
    <3> QED
      BY <1>6, <3>1, <3>2
  <2>2. ~Hears(g, q)
    BY <1>1, <1>6, <2>1, PathDrains, ConsentInvIs
  <2>3. CASE power[g] = "on"
    <3>1. ~Hears(g, q)'
      BY <1>1, <2>2, EvalQuiet
    <3>2. ASSUME NEW e \in Way(u, p)' PROVE e.at <= x
      <4>1. CASE e \in Way(u, p)
        BY <1>1, <4>1, WayIs
      <4>2. CASE \E h \in Downstream(u, p) : e.at = 2 * Along(h, p) + 2
        <5>1. PICK h \in Downstream(u, p) : e.at = 2 * Along(h, p) + 2
          BY <4>2
        <5>2. h = g
          BY <1>1, DownstreamUnique
        <5>3. Along(g, p) \in Int
          BY <1>1, AlongBack
        <5> QED
          BY <5>1, <5>2, <5>3
      <4> QED
        BY <1>1, <4>1, <4>2, EvalWay
    <3>3. ASSUME NEW y \in Flits(u, p)' PROVE y < x
      <4>1. y \in Flits(u, p)
        BY <1>1, EvalWay
      <4>2. y \in Int /\ y <= 2 * Along(g, p) + 1 /\ Along(g, p) \in Int
        BY <1>1, <4>1, FlitsIs, AlongBack
      <4> QED
        BY <4>2
    <3> QED
      BY <1>2, <2>3, <3>1, <3>2, <3>3 DEF Agreed, q
  <2>4. CASE power[g] = "draining"
    <3>1. q \notin {West, North}
      BY <1>1, <1>2, <2>4, ConsentInvIs DEF EarlyInv
    <3>2. p \in {West, North}
      BY <1>1, <3>1, OppType DEF q
    <3>3. down[u][p] # "draining"
      BY <1>2, <1>6, <3>2, ConsentInvIs DEF EarlyInv
    <3>4. PICK f \in Way(u, p) : f.msg.src = "draining"
      BY <1>1, <2>4, <3>3, PathDrains, ConsentInvIs
    <3>5. f \in Way(u, p)'
      BY <1>1, <3>4, EvalWay
    <3>6. f.at <= x
      BY <1>1, WayIs
    <3> QED
      BY <3>2, <3>4, <3>5, <3>6
  <2> QED
    BY <1>2, <2>3, <2>4
<1> QED
  BY <1>5, <1>6 DEF q

LEMMA EvalPath ==
  ASSUME KInv, ConsentInv, Evaluate, NEW u \in Router, power[u] # "off", NEW p \in MeshPorts(u)
  PROVE  NewsInv(u, p)' /\ RespInv(u, p)' /\ DoneInv(u, p)' /\ TagInv(u, p)' /\ GoneInv(u, p)'
<1>1. /\ p \in Port
      /\ NewsInv(u, p) /\ RespInv(u, p) /\ DoneInv(u, p) /\ TagInv(u, p) /\ GoneInv(u, p)
  BY ConsentInvIs, PortType
<1>2. /\ UNCHANGED <<power, down, tags, reqHid, respHid>> /\ phase = "eval"
      /\ Downstream(u, p)' = Downstream(u, p) /\ (p \in sent[u] => p \in sent'[u])
  BY <1>1, EvalIs
<1>3. \A e \in Way(u, p)' : e.msg.src # "none" =>
        \E f \in Way(u, p) : f.at = e.at /\ f.msg.src = e.msg.src /\ (e.msg.src = "draining" => f = e)
  BY <1>1, EvalWay
<1>4. \A e \in Way(u, p) : \E f \in Way(u, p)' :
        f.at = e.at /\ f.msg.src = e.msg.src /\ (e.msg.src = "draining" => f = e)
  BY <1>1, EvalWay
<1>5. NewsInv(u, p)'
  <2>1. ASSUME NEW e \in Way(u, p)'
        PROVE  /\ e.msg.src = "off" => power[u] = "on" /\ p \in sent[u] /\ down[u][p] = "draining"
               /\ e.msg.src = "draining" => \E g \in Downstream(u, p) : e.msg.hid <= reqHid[g][Opp(p)]
    <3>1. ASSUME e.msg.src = "off" PROVE power[u] = "on" /\ p \in sent[u] /\ down[u][p] = "draining"
      <4>1. PICK f \in Way(u, p) : f.msg.src = "off"
        BY <1>3, <3>1
      <4> QED
        BY <1>1, <4>1 DEF NewsInv
    <3>2. ASSUME e.msg.src = "draining" PROVE \E g \in Downstream(u, p) : e.msg.hid <= reqHid[g][Opp(p)]
      BY <1>1, <1>3, <3>2 DEF NewsInv
    <3> QED
      BY <3>1, <3>2
  <2>2. ASSUME NEW e \in Way(u, p)', e.msg.src # "none", NEW f \in Way(u, p)', f.at > e.at
        PROVE  f.msg.src # "off" /\ (e.msg.src = "draining" /\ f.msg.src = "draining" => e.msg.hid < f.msg.hid)
    <3>1. PICK a \in Way(u, p) : a.at = e.at /\ a.msg.src = e.msg.src /\ (e.msg.src = "draining" => a = e)
      BY <1>3, <2>2
    <3>2. ASSUME f.msg.src # "none"
          PROVE  f.msg.src # "off" /\ (e.msg.src = "draining" /\ f.msg.src = "draining" => e.msg.hid < f.msg.hid)
      <4>1. PICK b \in Way(u, p) : b.at = f.at /\ b.msg.src = f.msg.src /\ (f.msg.src = "draining" => b = f)
        BY <1>3, <3>2
      <4>2. b.at > a.at /\ a.msg.src # "none"
        BY <2>2, <3>1, <4>1
      <4>3. b.msg.src # "off" /\ (a.msg.src = "draining" /\ b.msg.src = "draining" => a.msg.hid < b.msg.hid)
        BY <1>1, <4>2 DEF NewsInv
      <4> QED
        BY <3>1, <4>1, <4>3
    <3> QED
      BY <3>2
  <2> QED
    BY <1>2, <2>1, <2>2 DEF NewsInv
<1>6. RespInv(u, p)'
  <2>1. \A e \in Way(u, p)' : e.msg.src = "draining" => e \in Way(u, p)
    BY <1>3
  <2> QED
    BY <1>1, <1>2, <2>1 DEF RespInv
<1>7. DoneInv(u, p)'
  <2>1. ASSUME NEW e \in Way(u, p)', e.msg.done
        PROVE  /\ e.msg.hid <= reqHid[u][p]
               /\ power[u] = "draining" /\ e.msg.hid = reqHid[u][p] =>
                    \/ \E g \in Downstream(u, p) : Agreed(u, p, g, e.at)'
                    \/ p \in {West, North} /\ \E f \in Way(u, p)' : f.msg.src = "draining" /\ f.at <= e.at
    <3>1. CASE e \in Way(u, p)
      <4>1. /\ e.msg.hid <= reqHid[u][p]
            /\ power[u] = "draining" /\ e.msg.hid = reqHid[u][p] =>
                 \/ \E g \in Downstream(u, p) : Agreed(u, p, g, e.at)
                 \/ p \in {West, North} /\ \E f \in Way(u, p) : f.msg.src = "draining" /\ f.at <= e.at
        BY <1>1, <1>2, <2>1, <3>1 DEF DoneInv, Overruled
      <4>2. ASSUME power[u] = "draining", NEW g \in Downstream(u, p), Agreed(u, p, g, e.at)
            PROVE  Agreed(u, p, g, e.at)'
        <5> DEFINE x == e.at
        <5>1. Agreed(u, p, g, x)
          BY <4>2
        <5> HIDE DEF x
        <5>2. Agreed(u, p, g, x)'
          BY <1>1, <4>2, <5>1, EvalAgreed
        <5> QED
          BY <5>2 DEF x
      <4>3. \A f \in Way(u, p) : f.msg.src = "draining" => f \in Way(u, p)'
        BY <1>4
      <4> QED
        BY <4>1, <4>2, <4>3
    <3>2. CASE e \notin Way(u, p)
      <4>1. PICK g \in Downstream(u, p) : /\ Responds(g, Opp(p), active') /\ e.at = 2 * Along(g, p) + 2
                                          /\ e.msg.hid = respHid[g][Opp(p)]
        BY <1>1, <3>2, EvalWay
      <4> DEFINE x == e.at
      <4>2. x = 2 * Along(g, p) + 2
        BY <4>1
      <4> HIDE DEF x
      <4>3. /\ respHid[g][Opp(p)] <= reqHid[u][p]
            /\ power[u] = "draining" /\ respHid[g][Opp(p)] = reqHid[u][p] =>
                 \/ Agreed(u, p, g, x)'
                 \/ p \in {West, North} /\ \E f \in Way(u, p)' : f.msg.src = "draining" /\ f.at <= x
        BY <4>1, <4>2, EvalAnswers
      <4> QED
        BY <4>1, <4>3 DEF x
    <3> QED
      BY <3>1, <3>2
  <2> QED
    BY <1>2, <2>1 DEF DoneInv
<1>8. TagInv(u, p)'
  <2>1. ASSUME power[u] = "draining", p \in tags[u], NEW g \in Downstream(u, p) PROVE Agreed(u, p, g, 0)'
    <3>1. Agreed(u, p, g, 0)
      BY <1>1, <1>2, <2>1 DEF TagInv, Overruled
    <3> QED
      BY <1>1, <2>1, <3>1, EvalAgreed
  <2> QED
    BY <1>2, <2>1 DEF TagInv
<1>9. GoneInv(u, p)'
  <2>1. ASSUME Downstream(u, p) = {}, NEW e \in Way(u, p)'
        PROVE  \E f \in Way(u, p)' : f.msg.src = "off" /\ f.at >= e.at
    <3>1. e \in Way(u, p)
      BY <1>1, <2>1, EvalWay
    <3>2. PICK b \in Way(u, p) : b.msg.src = "off" /\ b.at >= e.at
      BY <1>1, <2>1, <3>1 DEF GoneInv
    <3>3. PICK f \in Way(u, p)' : f.at = b.at /\ f.msg.src = b.msg.src
      BY <1>4
    <3> QED
      BY <3>2, <3>3
  <2> QED
    BY <1>2, <2>1 DEF GoneInv
<1> QED
  BY <1>5, <1>6, <1>7, <1>8, <1>9

LEMMA EvalConsent ==
  ASSUME KInv, ConsentInv, Evaluate
  PROVE  ConsentInv'
<1>1. /\ UNCHANGED <<power, down>> /\ phase = "eval" /\ phase' = "write"
  BY EvalIs
<1>2. ASSUME NEW r \in Router PROVE EarlyInv(r)' /\ StartInv(r)'
  <2>1. EarlyInv(r) /\ StartInv(r)
    BY ConsentInvIs
  <2>2. EarlyInv(r)'
    BY <1>1, <2>1 DEF EarlyInv
  <2>3. ASSUME NEW p \in Port, <<r, p>> \in active'
        PROVE  power[r] # "off" /\ (r \in Gateable => r \in occupied')
    BY <2>1, <2>3, EvalIs DEF StartInv
  <2>4. StartInv(r)'
    BY <1>1, <2>1, <2>3 DEF StartInv
  <2> QED
    BY <2>2, <2>4
<1>3. \A r \in Router : \A p \in MeshPorts(r) : LegalInv(r, p)' /\ IdInv(r, p)' /\ NbrInv(r, p)'
  BY EvalLink
<1>4. \A u \in Router : power'[u] # "off" => \A p \in MeshPorts(u) :
        NewsInv(u, p)' /\ RespInv(u, p)' /\ DoneInv(u, p)' /\ TagInv(u, p)' /\ GoneInv(u, p)'
  BY <1>1, EvalPath
<1>5. NoWakeup'
  BY <1>1, ConsentInvIs DEF NoWakeup
<1> QED
  BY <1>2, <1>3, <1>4, <1>5, ConsentInvNext

-----------------------------------------------------------------------------
(* ReadInputs. *)

LEMMA ReadIs ==
  ASSUME KInv, ConsentInv, ReadInputs
  PROVE  /\ phase = "read" /\ phase' = "power"
         /\ UNCHANGED <<power, reqHid, wire, avail, active, flitWire, flitAvail>>
         /\ occupied \subseteq occupied'
         /\ \A u, p : Downstream(u, p)' = Downstream(u, p) /\ Stretch(u, p)' = Stretch(u, p)
         /\ \A r \in Router : \A p \in Port :
              /\ down'[r][p] = NewDown(r, p) /\ respHid'[r][p] = RespHidAfter(r, p)
              /\ nbr'[r][p] = Noted(Arriving(r, p), Nbr(r, p), nbr[r][p])
              /\ p \in tags'[r] <=> p \in tags[r] \/ Consents(r, p)
              /\ p \in sent'[r] <=> p \in sent[r] /\ ~Rearms(r, Arriving(r, p))
              /\ power[r] # "off" => out'[r][p] = NoMsg
              /\ power[r] = "off" => out'[r][p] = Relayed(r, Opp(p))
<1>1. /\ phase = "read" /\ phase' = "power"
      /\ UNCHANGED <<power, reqHid, wire, avail, active, flitWire, flitAvail>>
      /\ occupied \subseteq occupied'
  BY DEF ReadInputs, chans
<1>2. \A u, p : Downstream(u, p)' = Downstream(u, p)
  BY <1>1 DEF Downstream
<1>3. \A u, p : Stretch(u, p)' = Stretch(u, p)
  BY <1>2 DEF Stretch
<1>4. ASSUME NEW r \in Router, NEW p \in Port
      PROVE  /\ down'[r][p] = NewDown(r, p) /\ respHid'[r][p] = RespHidAfter(r, p)
             /\ nbr'[r][p] = Noted(Arriving(r, p), Nbr(r, p), nbr[r][p])
             /\ p \in tags'[r] <=> p \in tags[r] \/ Consents(r, p)
             /\ p \in sent'[r] <=> p \in sent[r] /\ ~Rearms(r, Arriving(r, p))
             /\ power[r] # "off" => out'[r][p] = NoMsg
             /\ power[r] = "off" => out'[r][p] = Relayed(r, Opp(p))
  <2>1. /\ down'[r][p] = NewDown(r, p) /\ respHid'[r][p] = RespHidAfter(r, p)
        /\ tags'[r] = TagsAfter(r) /\ sent'[r] = Relays(r).sent /\ out'[r] = Relays(r).out
    BY DEF ReadInputs
  <2>2. nbr'[r][p] = IF Arriving(r, p).new # "none" /\ Arriving(r, p).id = Nbr(r, p)
                     THEN Arriving(r, p).src ELSE nbr[r][p]
    BY DEF ReadInputs
  <2>3. power[r] \in {"on", "draining", "off"} /\ (power[r] # "off" => power[r] \in Idle)
    BY ConsentInvIs DEF NoWakeup, KInv, TypeOK, PowerState, Idle
  <2>4. Relays(r).sent = ArmedAfter(r)
    <3>1. CASE power[r] \in Idle
      BY <3>1 DEF Relays, Idle
    <3>2. CASE power[r] = "off"
      BY <3>2 DEF Relays, Idle
    <3> QED
      BY <2>3, <3>1, <3>2
  <2>5. /\ power[r] # "off" => Relays(r).out[p] = NoMsg
        /\ power[r] = "off" => Relays(r).out[p] = Relayed(r, Opp(p))
    BY <1>1, <2>3, RelaysType DEF KInv
  <2>6. p \in tags'[r] <=> p \in tags[r] \/ Consents(r, p)
    BY <2>1 DEF TagsAfter
  <2>7. p \in sent'[r] <=> p \in sent[r] /\ ~Rearms(r, Arriving(r, p))
    BY <2>1, <2>4 DEF ArmedAfter
  <2> QED
    BY <2>1, <2>2, <2>5, <2>6, <2>7 DEF Noted
<1> QED
  BY <1>1, <1>2, <1>3, <1>4

(* What a router that is off forwards. *)
LEMMA ForwardIs ==
  ASSUME KInv, NEW s \in Router, NEW p \in Port, ~Boundary(s, Opp(p))
  PROVE  /\ Boundary(s, p) => Relayed(s, p) = NoMsg
         /\ Relayed(s, p) # NoMsg =>
              /\ Arriving(s, p) # NoMsg
              /\ Relayed(s, p).src = Arriving(s, p).src /\ Relayed(s, p).new = Arriving(s, p).new
              /\ Relayed(s, p).hid = Arriving(s, p).hid /\ Relayed(s, p).id = Arriving(s, p).id
              /\ Relayed(s, p).done => Arriving(s, p).done
         /\ Arriving(s, p).src # "none" => Relayed(s, p) # NoMsg
<1> DEFINE m == Arriving(s, p)
           d == m.done /\ NewDown(s, Opp(p)) \in {"draining", "wakeup"}
           e == [m EXCEPT !.done = d]
<1>1. m \in Message /\ (Boundary(s, p) => m = NoMsg)
  BY ArrivingType DEF KInv
<1>2. Relayed(s, p) = IF m.new = "none" /\ m.src = "none" /\ ~d THEN NoMsg ELSE e
  BY DEF Relayed
<1>3. d => m.done
  OBVIOUS
<1>4. m = NoMsg => m.new = "none" /\ m.src = "none" /\ ~d
  BY DEF NoMsg
<1> HIDE DEF d
<1>5. e.src = m.src /\ e.new = m.new /\ e.hid = m.hid /\ e.id = m.id /\ e.done = d
  BY <1>1 DEF Message
<1> HIDE DEF e, m
<1>6. m.src # "none" => Relayed(s, p) # NoMsg
  BY <1>2, <1>5, MessageType
<1> QED
  BY <1>1, <1>2, <1>3, <1>4, <1>5, <1>6 DEF m

LEMMA ReadLink ==
  ASSUME KInv, ConsentInv, ReadInputs, NEW r \in Router, NEW p \in MeshPorts(r)
  PROVE  LegalInv(r, p)' /\ IdInv(r, p)' /\ NbrInv(r, p)'
<1> DEFINE n == Nbr(r, p)
           q == Opp(p)
<1>1. p \in Port /\ n \in Router /\ q \in Port /\ Opp(q) = p /\ ~Boundary(n, q)
  BY MeshLink, PortType
<1>2. LegalInv(r, p) /\ IdInv(r, p) /\ NbrInv(r, p)
  BY ConsentInvIs
<1>3. /\ phase = "read" /\ phase' = "power" /\ UNCHANGED <<power, wire, avail>>
      /\ down'[r][p] = NewDown(r, p) /\ nbr'[r][p] = Noted(Arriving(r, p), n, nbr[r][p])
  BY <1>1, ReadIs
<1>4. /\ Arrived(r, p) = Arriving(r, p) /\ Arrived(r, p)' = NoMsg /\ Coming(r, p)' = Coming(r, p)
      /\ Queued(r, p) = NoMsg /\ Queued(r, p)' = out'[n][q]
  BY <1>1, <1>3 DEF Arrived, Coming, Queued, KInv, Shape
<1>5. Known1(r, p)' = Known1(r, p)
  <2>1. Known(r, p)' = Known1(r, p)
    BY <1>1, <1>4, ReadingIs DEF Known1
  <2>2. PICK d, l : Known1(r, p) = [down |-> d, logical |-> l]
    BY AfterIsPair DEF Known1
  <2>3. Known1(r, p)' = After(NoMsg, Known1(r, p))
    BY <1>4, <2>1 DEF Known1
  <2> QED
    BY <2>2, <2>3, AfterNone
<1>6. Known2(r, p)' = Known2(r, p)
  BY <1>4, <1>5 DEF Known2
<1>7. Known2(r, p).down = IF power[n] = "off" THEN down[n][p] ELSE power[n]
  <2>1. PICK d, l : Known2(r, p) = [down |-> d, logical |-> l]
    BY AfterIsPair DEF Known2
  <2>2. Known3(r, p) = Known2(r, p)
    BY <1>4, <2>1, AfterNone DEF Known3
  <2>3. LinkInv(r, p)
    BY DEF KInv
  <2> QED
    BY <2>2, <2>3 DEF LinkInv, Agree, Shown, Known
<1>8. Known1(r, p).down = NewDown(r, p)
  BY <1>4, AfterIs DEF Known1, NewDown, Known
<1>9. /\ Noted1(r, p)' = Noted1(r, p) /\ nbr'[r][p] = Noted1(r, p) /\ Noted2(r, p)' = Noted2(r, p)
      /\ Noted2(r, p) = power[n]
  <2>1. nbr'[r][p] = Noted1(r, p)
    BY <1>3, <1>4 DEF Noted1
  <2>2. Noted1(r, p)' = Noted1(r, p)
    BY <1>4, <2>1, MessageType DEF Noted1, Noted
  <2>3. Noted2(r, p)' = Noted2(r, p)
    BY <1>4, <2>2 DEF Noted2
  <2>4. Noted2(r, p) = power[n]
    BY <1>2, <1>4, MessageType DEF NbrInv, Noted3, Noted
  <2> QED
    BY <2>1, <2>2, <2>3, <2>4
<1>10. ASSUME Queued(r, p)' # NoMsg
       PROVE  /\ power[n] = "off"
              /\ Legal(Queued(r, p)', down[n][p])
              /\ Queued(r, p)'.src # "none" => Queued(r, p)'.id \in Ahead(n, p) /\ Queued(r, p)'.id # n
  <2> DEFINE m == Arriving(n, p)
             h == Relayed(n, p)
  <2> HIDE DEF n, q
  <2>1. power[n] = "off" /\ Queued(r, p)' = h
    BY <1>1, <1>4, <1>10, ReadIs
  <2>2. /\ p \in MeshPorts(n)
        /\ h.src = m.src /\ h.new = m.new /\ h.id = m.id
    <3>1. ~Boundary(n, p) /\ h.src = m.src /\ h.new = m.new /\ h.id = m.id
      BY <1>1, <1>10, <2>1, ForwardIs DEF q
    <3> QED
      BY <1>1, <3>1, PortType
  <2> HIDE DEF h
  <2>3. LegalInv(n, p) /\ IdInv(n, p) /\ Arrived(n, p) = m
    BY <1>1, <1>3, <2>2, ConsentInvIs DEF Arrived
  <2>4. Legal(h, down[n][p])
    BY <2>2, <2>3 DEF LegalInv, Legal
  <2>5. ASSUME h.src # "none" PROVE h.id \in Ahead(n, p) /\ h.id # n
    <3> DEFINE t == Nbr(n, p)
    <3>1. h.id = t \/ h.id \in Ahead(t, p)
      BY <2>2, <2>3, <2>5 DEF IdInv, By
    <3>2. t \in Ahead(n, p)
      BY <1>1, <2>2, AlongType, PortType
    <3> HIDE DEF t
    <3>3. Ahead(t, p) \subseteq Ahead(n, p)
      BY <1>1, <3>2, AheadAlong
    <3>4. h.id \in Ahead(n, p)
      BY <3>1, <3>2, <3>3
    <3>5. n \notin Ahead(n, p)
      <4>1. Along(n, p) \in Int
        BY <1>1, AlongBack
      <4> QED
        BY <1>1, <4>1, AheadAlong
    <3> QED
      BY <3>4, <3>5
  <2> QED
    BY <2>1, <2>4, <2>5
<1>11. LegalInv(r, p)'
  <2>1. \A d : Legal(NoMsg, d)
    BY MessageType DEF Legal
  <2>2. down'[r][p] \in {"on", "draining", "off"}
    BY <1>2, <1>3, <1>4 DEF LegalInv, Legal, NewDown
  <2>3. Legal(Queued(r, p)', Known2(r, p).down)
    BY <1>7, <1>10, <2>1
  <2> QED
    BY <1>2, <1>4, <1>5, <1>6, <2>1, <2>2, <2>3 DEF LegalInv
<1>12. IdInv(r, p)'
  <2>1. By(NoMsg, n, p)
    BY MessageType DEF By
  <2>2. By(Queued(r, p)', n, p)
    BY <1>10, <2>1 DEF By
  <2> QED
    BY <1>2, <1>4, <2>1, <2>2 DEF IdInv
<1>13. NbrInv(r, p)'
  <2>1. \A b : Speaks(NoMsg, n, b)
    BY MessageType DEF Speaks
  <2>2. Speaks(Queued(r, p)', n, Noted2(r, p))
    BY <1>9, <1>10, <2>1 DEF Speaks
  <2>3. Noted3(r, p)' = power[n]
    <3>1. Noted3(r, p)' = Noted(Queued(r, p)', n, Noted2(r, p))
      BY <1>9 DEF Noted3
    <3>2. CASE Queued(r, p)' = NoMsg
      BY <1>9, <3>1, <3>2, MessageType DEF Noted
    <3>3. CASE Queued(r, p)' # NoMsg
      <4>1. Queued(r, p)'.new # "none" => Queued(r, p)'.id # n
        BY <1>10, <3>3 DEF Legal
      <4> QED
        BY <1>9, <3>1, <4>1 DEF Noted
    <3> QED
      BY <3>2, <3>3
  <2>4. nbr'[r][p] # "off" => down'[r][p] = nbr'[r][p]
    <3>1. /\ Legal(Arriving(r, p), down[r][p])
          /\ nbr[r][p] # "off" => down[r][p] = nbr[r][p]
          /\ Speaks(Arriving(r, p), n, nbr[r][p])
      BY <1>2, <1>4 DEF LegalInv, NbrInv
    <3> QED
      BY <1>3, <3>1 DEF Legal, Speaks, Noted, NewDown
  <2> QED
    BY <1>2, <1>3, <1>4, <1>9, <2>1, <2>2, <2>3, <2>4 DEF NbrInv
<1> QED
  BY <1>11, <1>12, <1>13

(* What is at the last place is read, the rest stays in its place, in the  *)
(* queue of a router that is off if it was at a channel's output.          *)
LEMMA ReadWay ==
  ASSUME KInv, ConsentInv, ReadInputs, NEW u \in Router, NEW p \in MeshPorts(u),
         NEW x, x = 2 * Along(u, p) + 2
  PROVE  /\ Flits(u, p)' = Flits(u, p)
         /\ \A e \in Way(u, p)' :
              /\ e.at \in Int /\ e.at > x
              /\ \E f \in Way(u, p) : /\ f.at = e.at /\ f.msg.src = e.msg.src /\ f.msg.hid = e.msg.hid
                                      /\ e.msg.done => f.msg.done
         /\ \A e \in Way(u, p) : e.at > x /\ e.msg.src # "none" =>
              \E f \in Way(u, p)' : f.at = e.at /\ f.msg.src = e.msg.src /\ f.msg.hid = e.msg.hid
         /\ \A e \in Way(u, p) : e.at \in Int /\ e.at >= x /\ (e.at = x => e.msg = Arriving(u, p))
         /\ Arriving(u, p) # NoMsg => [msg |-> Arriving(u, p), at |-> x] \in Way(u, p)
<1> DEFINE q == Opp(p)
<1>0. /\ Stretch(u, p)' = Stretch(u, p) /\ phase = "read" /\ phase' = "power"
      /\ UNCHANGED <<flitWire, flitAvail, wire, avail, power>>
      /\ p \in Port /\ q \in Port /\ Opp(q) = p /\ Along(u, p) \in Int /\ ~Boundary(u, p)
  BY ReadIs, OppType, PortType, AlongBack
<1>1. Flits(u, p)' = Flits(u, p)
  BY <1>0 DEF Flits
<1>2. ASSUME NEW s \in Stretch(u, p)
      PROVE  /\ s \in Router /\ ~Boundary(s, q) /\ Along(s, p) \in Int /\ Along(s, p) > Along(u, p)
             /\ Slot(s, 0, q)' = NoMsg /\ Slot(s, 0, q) = avail[s][q] /\ Slot(s, 1, q)' = Slot(s, 1, q)
             /\ Slot(s, 2, q) = NoMsg
             /\ power[s] # "off" => Slot(s, 2, q)' = NoMsg
             /\ power[s] = "off" => Slot(s, 2, q)' = Relayed(s, p)
  <2>1. s \in Router /\ ~Boundary(s, q) /\ s \in Ahead(u, p)
    BY <1>0, StretchBack, StretchIs
  <2>2. Along(s, p) \in Int /\ Along(s, p) > Along(u, p)
    BY <1>0, <2>1, AlongBack, AheadAlong
  <2> HIDE DEF q
  <2>3. Slot(s, 0, q)' = NoMsg /\ Slot(s, 0, q) = avail[s][q] /\ Slot(s, 1, q)' = Slot(s, 1, q)
        /\ Slot(s, 2, q) = NoMsg /\ Slot(s, 2, q)' = out'[s][q]
    BY <1>0, <2>1 DEF Slot, KInv, Shape
  <2>4. /\ power[s] # "off" => out'[s][q] = NoMsg
        /\ power[s] = "off" => out'[s][q] = Relayed(s, p)
    BY <1>0, <2>1, ReadIs
  <2> QED
    BY <2>1, <2>2, <2>3, <2>4
<1>3. ASSUME NEW e \in Way(u, p)'
      PROVE  /\ e.at \in Int /\ e.at > x
             /\ \E f \in Way(u, p) : /\ f.at = e.at /\ f.msg.src = e.msg.src /\ f.msg.hid = e.msg.hid
                                     /\ e.msg.done => f.msg.done
  <2>1. PICK s \in Stretch(u, p), k \in 0 .. 2 : e = [msg |-> Slot(s, k, q)', at |-> At(s, k, p)] /\ e.msg # NoMsg
    BY <1>0 DEF Way
  <2>2. k = 1 \/ (k = 2 /\ power[s] = "off")
    <3>1. k = 0 \/ k = 1 \/ k = 2
      OBVIOUS
    <3>2. Slot(s, k, q)' # NoMsg
      BY <2>1
    <3> HIDE DEF q
    <3> QED
      BY <1>2, <3>1, <3>2
  <2>3. e.at = 2 * Along(s, p) + k /\ e.at \in Int /\ e.at > x
    BY <1>0, <1>2, <2>1, <2>2 DEF At
  <2>4. CASE k = 1
    <3>1. Slot(s, 1, q)' = Slot(s, 1, q) /\ Slot(s, 1, q) # NoMsg
      BY <1>2, <2>1, <2>4
    <3>2. [msg |-> Slot(s, 1, q), at |-> At(s, 1, p)] \in Way(u, p)
      <4>1. 1 \in 0 .. 2
        OBVIOUS
      <4> QED
        BY <3>1, <4>1, InWay
    <3>3. e = [msg |-> Slot(s, 1, q), at |-> At(s, 1, p)]
      BY <2>1, <2>4, <3>1
    <3> QED
      BY <2>3, <3>2, <3>3
  <2>5. CASE k = 2 /\ power[s] = "off"
    <3> DEFINE t == Nbr(s, p)
    <3>1. e.msg = Relayed(s, p) /\ Relayed(s, p) # NoMsg
      BY <1>2, <2>1, <2>5
    <3>2. /\ ~Boundary(s, p) /\ Arriving(s, p) # NoMsg
          /\ e.msg.src = Arriving(s, p).src /\ e.msg.hid = Arriving(s, p).hid
          /\ e.msg.done => Arriving(s, p).done
      <4>1. s \in Router /\ ~Boundary(s, Opp(p))
        BY <1>2
      <4> QED
        BY <1>0, <3>1, <4>1, ForwardIs
    <3>3. t \in Stretch(u, p) /\ Along(t, p) = Along(s, p) + 1
      BY <1>0, <2>5, <3>2, StretchOn
    <3> HIDE DEF t
    <3>4. Slot(t, 0, q) = Arriving(s, p)
      BY <1>2, <3>3 DEF Arriving, t
    <3>5. [msg |-> Slot(t, 0, q), at |-> At(t, 0, p)] \in Way(u, p)
      <4>1. 0 \in 0 .. 2
        OBVIOUS
      <4> QED
        BY <3>2, <3>3, <3>4, <4>1, InWay
    <3>6. At(t, 0, p) = e.at
      BY <1>2, <2>3, <2>5, <3>3 DEF At
    <3> DEFINE f == [msg |-> Slot(t, 0, q), at |-> At(t, 0, p)]
    <3>7. f.msg = Arriving(s, p) /\ f.at = e.at /\ f \in Way(u, p)
      BY <3>4, <3>5, <3>6
    <3> HIDE DEF f
    <3> QED
      BY <2>3, <3>2, <3>7
  <2> QED
    BY <2>2, <2>4, <2>5
<1>4. ASSUME NEW e \in Way(u, p)
      PROVE  /\ e.at \in Int /\ e.at >= x /\ (e.at = x => e.msg = Arriving(u, p))
             /\ e.at > x /\ e.msg.src # "none" =>
                  \E f \in Way(u, p)' : f.at = e.at /\ f.msg.src = e.msg.src /\ f.msg.hid = e.msg.hid
  <2>1. PICK t \in Stretch(u, p), k \in 0 .. 2 : e = [msg |-> Slot(t, k, q), at |-> At(t, k, p)]
    BY <1>0, WayIs
  <2>2. e.msg # NoMsg /\ e.at \in Int /\ e.at >= x
    BY <1>0, WayIs
  <2>3. k = 0 \/ k = 1
    <3>1. k = 0 \/ k = 1 \/ k = 2
      OBVIOUS
    <3>2. Slot(t, k, q) # NoMsg
      BY <2>1, <2>2
    <3> HIDE DEF q
    <3> QED
      BY <1>2, <3>1, <3>2
  <2>4. e.at = 2 * Along(t, p) + k /\ Along(t, p) \in Int /\ Along(t, p) > Along(u, p)
    BY <1>2, <2>1 DEF At
  <2> DEFINE s == Nbr(t, q)
  <2>5. /\ s \in Router /\ ~Boundary(s, p) /\ Nbr(s, p) = t /\ Along(s, p) = Along(t, p) - 1
        /\ s = u \/ (s \in Stretch(u, p) /\ power[s] = "off")
    BY <1>0, StretchBack
  <2> HIDE DEF s
  <2>6. k = 0 => e.msg = Arriving(s, p)
    BY <1>2, <2>1, <2>5 DEF Arriving
  <2>7. e.at = x => k = 0 /\ s = u
    <3>1. ASSUME e.at = x PROVE k = 0 /\ Along(s, p) = Along(u, p)
      BY <1>0, <2>3, <2>4, <2>5, <3>1
    <3>2. s \in Stretch(u, p) => Along(s, p) > Along(u, p)
      BY <1>2
    <3> QED
      BY <1>0, <2>5, <3>1, <3>2
  <2>8. ASSUME e.at > x, e.msg.src # "none"
        PROVE  \E f \in Way(u, p)' : f.at = e.at /\ f.msg.src = e.msg.src /\ f.msg.hid = e.msg.hid
    <3>1. CASE k = 1
      <4> DEFINE f == [msg |-> Slot(t, 1, q)', at |-> At(t, 1, p)]
      <4>1. Slot(t, 1, q)' = e.msg /\ Slot(t, 1, q)' # NoMsg /\ f.at = e.at
        BY <1>2, <2>1, <2>2, <3>1
      <4>2. f \in Way(u, p)'
        BY <1>0, <4>1 DEF Way
      <4> QED
        BY <4>1, <4>2
    <3>2. CASE k = 0
      <4>1. s \in Stretch(u, p) /\ power[s] = "off"
        <5>1. s # u
          BY <1>0, <2>4, <2>5, <2>8, <3>2
        <5> QED
          BY <2>5, <5>1
      <4> DEFINE f == [msg |-> Slot(s, 2, q)', at |-> At(s, 2, p)]
      <4>2. Slot(s, 2, q)' = Relayed(s, p)
        BY <1>2, <4>1
      <4>3. Relayed(s, p) # NoMsg /\ Relayed(s, p).src = e.msg.src /\ Relayed(s, p).hid = e.msg.hid
        <5>1. s \in Router /\ ~Boundary(s, Opp(p)) /\ e.msg = Arriving(s, p)
          BY <1>2, <2>6, <3>2, <4>1
        <5> QED
          BY <1>0, <2>8, <5>1, ForwardIs
      <4>4. At(s, 2, p) = e.at
        BY <2>4, <2>5, <3>2 DEF At
      <4>5. f \in Way(u, p)'
        BY <1>0, <4>1, <4>2, <4>3 DEF Way
      <4>6. f.msg = Relayed(s, p) /\ f.at = e.at
        BY <4>2, <4>4
      <4> HIDE DEF f
      <4> QED
        BY <4>3, <4>5, <4>6
    <3> QED
      BY <2>3, <3>1, <3>2
  <2> QED
    BY <2>2, <2>3, <2>6, <2>7, <2>8
<1>5. ASSUME Arriving(u, p) # NoMsg
      PROVE  [msg |-> Arriving(u, p), at |-> x] \in Way(u, p)
  <2> DEFINE n == Nbr(u, p)
  <2>1. n \in Stretch(u, p) /\ Along(n, p) = Along(u, p) + 1
    BY <1>0, StretchOn
  <2> HIDE DEF n
  <2>2. Slot(n, 0, q) = Arriving(u, p) /\ At(n, 0, p) = x
    <3>1. Slot(n, 0, q) = Arriving(u, p)
      BY <1>2, <2>1 DEF Arriving, n
    <3>2. At(n, 0, p) = x
      BY <1>0, <2>1 DEF At
    <3> QED
      BY <3>1, <3>2
  <2>3. [msg |-> Slot(n, 0, q), at |-> At(n, 0, p)] \in Way(u, p)
    <3>1. 0 \in 0 .. 2
      OBVIOUS
    <3> QED
      BY <1>5, <2>1, <2>2, <3>1, InWay
  <2> QED
    BY <2>2, <2>3
<1> QED
  BY <1>1, <1>3, <1>4, <1>5

(* A router that has agreed reads nothing that makes it answer again. *)
LEMMA ReadAgreed ==
  ASSUME KInv, ConsentInv, ReadInputs, NEW u \in Router, power[u] # "off", NEW p \in MeshPorts(u),
         NEW g \in Downstream(u, p), NEW x, Agreed(u, p, g, x)
  PROVE  Agreed(u, p, g, x)'
<1> DEFINE q == Opp(p)
           y == 2 * Along(g, q) + 2
           z == 2 * Along(u, p) + 2
<1>1. /\ power[g] = "on" /\ q \in sent[g] /\ <<g, q>> \notin active /\ ~Hears(g, q)
      /\ \A e \in Way(u, p) : e.at <= x
      /\ \A f \in Flits(u, p) : f < x
  BY AgreedIs
<1>2. g \in Router /\ q \in Port /\ q \in MeshPorts(g) /\ p \in Port
  BY Facing, PortType
<1> HIDE DEF q
<1>3. Arriving(g, q).src = "none"
  <2> DEFINE f == [msg |-> Arriving(g, q), at |-> y]
  <2>1. Arriving(g, q) # NoMsg => f \in Way(g, q)
    <3> HIDE DEF y
    <3>1. y = 2 * Along(g, q) + 2
      BY DEF y
    <3>2. Arriving(g, q) # NoMsg => [msg |-> Arriving(g, q), at |-> y] \in Way(g, q)
      BY <1>2, <3>1, ReadWay
    <3> QED
      BY <3>2 DEF f
  <2>2. f.msg = Arriving(g, q)
    OBVIOUS
  <2> HIDE DEF f
  <2> QED
    BY <1>1, <2>1, <2>2, MessageType DEF Hears
<1>4. q \in sent'[g] /\ power'[g] = "on" /\ <<g, q>> \notin active'
  <2>1. ~Rearms(g, Arriving(g, q))
    BY <1>1, <1>3 DEF Rearms
  <2> QED
    BY <1>1, <1>2, <2>1, ReadIs
<1>5. ~Hears(g, q)'
  <2>1. \A e \in Way(g, q)' : \E f \in Way(g, q) : f.msg.src = e.msg.src
    <3> HIDE DEF y
    <3>1. y = 2 * Along(g, q) + 2
      BY DEF y
    <3>2. \A e \in Way(g, q)' :
            /\ e.at \in Int /\ e.at > y
            /\ \E f \in Way(g, q) : /\ f.at = e.at /\ f.msg.src = e.msg.src /\ f.msg.hid = e.msg.hid
                                    /\ e.msg.done => f.msg.done
      BY <1>2, <3>1, ReadWay
    <3> QED
      BY <3>2
  <2> QED
    BY <1>1, <2>1 DEF Hears
<1>6. (\A e \in Way(u, p)' : e.at <= x) /\ (\A f \in Flits(u, p)' : f < x)
  <2> HIDE DEF z
  <2>1. z = 2 * Along(u, p) + 2
    BY DEF z
  <2>2. Flits(u, p)' = Flits(u, p) /\ \A e \in Way(u, p)' : \E f \in Way(u, p) : f.at = e.at
    BY <2>1, ReadWay
  <2> QED
    BY <1>1, <2>2
<1> QED
  BY <1>4, <1>5, <1>6 DEF Agreed, q

LEMMA ReadPath ==
  ASSUME KInv, ConsentInv, ReadInputs, NEW u \in Router, power[u] # "off", NEW p \in MeshPorts(u)
  PROVE  NewsInv(u, p)' /\ RespInv(u, p)' /\ DoneInv(u, p)' /\ TagInv(u, p)' /\ GoneInv(u, p)'
<1> DEFINE x == 2 * Along(u, p) + 2
           A == Arriving(u, p)
           a == [msg |-> A, at |-> x]
<1>1. /\ p \in Port
      /\ NewsInv(u, p) /\ RespInv(u, p) /\ DoneInv(u, p) /\ TagInv(u, p) /\ GoneInv(u, p)
  BY ConsentInvIs, PortType
<1>2. /\ UNCHANGED <<power, reqHid>> /\ phase = "read" /\ phase' = "power"
      /\ Downstream(u, p)' = Downstream(u, p)
      /\ down'[u][p] = NewDown(u, p) /\ respHid'[u][p] = RespHidAfter(u, p)
      /\ p \in tags'[u] <=> p \in tags[u] \/ Consents(u, p)
      /\ p \in sent'[u] <=> p \in sent[u] /\ ~Rearms(u, A)
  BY <1>1, ReadIs
<1>3. Legal(A, down[u][p])
  <2>1. LegalInv(u, p) /\ Arrived(u, p) = A
    BY <1>2, ConsentInvIs DEF Arrived
  <2> QED
    BY <2>1 DEF LegalInv
<1>4. a.msg = A /\ a.at = x /\ x = 2 * Along(u, p) + 2 /\ x \in Int
  <2>1. Along(u, p) \in Int
    BY <1>1, AlongBack
  <2> QED
    BY <2>1
<1> HIDE DEF x, a
<1>5. /\ Flits(u, p)' = Flits(u, p)
      /\ \A e \in Way(u, p)' :
           /\ e.at \in Int /\ e.at > x
           /\ \E f \in Way(u, p) : /\ f.at = e.at /\ f.msg.src = e.msg.src /\ f.msg.hid = e.msg.hid
                                   /\ e.msg.done => f.msg.done
      /\ \A e \in Way(u, p) : e.at > x /\ e.msg.src # "none" =>
           \E f \in Way(u, p)' : f.at = e.at /\ f.msg.src = e.msg.src /\ f.msg.hid = e.msg.hid
      /\ \A e \in Way(u, p) : e.at \in Int /\ e.at >= x /\ (e.at = x => e.msg = A)
      /\ A # NoMsg => a \in Way(u, p)
  <2>1. A # NoMsg => [msg |-> A, at |-> x] \in Way(u, p)
    BY <1>4, ReadWay
  <2> HIDE DEF A
  <2> QED
    BY <1>4, <2>1, ReadWay DEF A, a
<1> HIDE DEF A
<1>6. A.src # "none" => a \in Way(u, p)
  BY <1>5, MessageType
<1>7. NewsInv(u, p)'
  <2>1. ASSUME NEW e \in Way(u, p)', e.msg.src = "off"
        PROVE  power'[u] = "on" /\ p \in sent'[u] /\ down'[u][p] = "draining"
    <3>1. PICK f \in Way(u, p) : f.at = e.at /\ f.msg.src = "off" /\ f.at > x
      BY <1>5, <2>1
    <3>2. power[u] = "on" /\ p \in sent[u] /\ down[u][p] = "draining"
      BY <1>1, <3>1 DEF NewsInv
    <3>3. A.src = "none"
      <4>1. ASSUME A.src # "none" PROVE FALSE
        BY <1>1, <1>4, <1>6, <3>1, <4>1 DEF NewsInv
      <4> QED
        BY <4>1
    <3>4. ~Rearms(u, A) /\ NewDown(u, p) = "draining"
      BY <1>3, <3>2, <3>3 DEF Rearms, NewDown, Legal, A
    <3> QED
      BY <1>2, <3>2, <3>4
  <2>2. ASSUME NEW e \in Way(u, p)', e.msg.src = "draining"
        PROVE  \E g \in Downstream(u, p) : e.msg.hid <= reqHid[g][Opp(p)]
    <3>1. PICK f \in Way(u, p) : f.msg.src = "draining" /\ f.msg.hid = e.msg.hid
      BY <1>5, <2>2
    <3> QED
      BY <1>1, <3>1 DEF NewsInv
  <2>3. ASSUME NEW e \in Way(u, p)', e.msg.src # "none", NEW f \in Way(u, p)', f.at > e.at
        PROVE  f.msg.src # "off" /\ (e.msg.src = "draining" /\ f.msg.src = "draining" => e.msg.hid < f.msg.hid)
    <3>1. PICK b \in Way(u, p) : b.at = e.at /\ b.msg.src = e.msg.src /\ b.msg.hid = e.msg.hid
      BY <1>5
    <3>2. PICK c \in Way(u, p) : c.at = f.at /\ c.msg.src = f.msg.src /\ c.msg.hid = f.msg.hid
      BY <1>5
    <3>3. c.at > b.at /\ b.msg.src # "none"
      BY <2>3, <3>1, <3>2
    <3>4. c.msg.src # "off" /\ (b.msg.src = "draining" /\ c.msg.src = "draining" => b.msg.hid < c.msg.hid)
      BY <1>1, <3>3 DEF NewsInv
    <3> QED
      BY <3>1, <3>2, <3>4
  <2> QED
    BY <1>2, <2>1, <2>2, <2>3 DEF NewsInv
<1>8. RespInv(u, p)'
  <2> SUFFICES ASSUME down'[u][p] = "draining", p \notin sent'[u]
               PROVE  /\ \E g \in Downstream(u, p) : respHid'[u][p] <= reqHid[g][Opp(p)]
                      /\ \A e \in Way(u, p)' : e.msg.src = "draining" => respHid'[u][p] < e.msg.hid
    BY <1>2 DEF RespInv
  <2>1. NewDown(u, p) = "draining" /\ respHid'[u][p] = IF A.src # "none" THEN A.hid ELSE respHid[u][p]
    BY <1>2 DEF RespHidAfter, A
  <2>2. \A e \in Way(u, p)' : \E f \in Way(u, p) : f.at > x /\ f.msg.src = e.msg.src /\ f.msg.hid = e.msg.hid
    BY <1>5
  <2>3. CASE A.src = "none"
    <3>1. down[u][p] = "draining" /\ ~Rearms(u, A)
      <4>1. down[u][p] = "draining"
        BY <1>3, <2>1, <2>3 DEF NewDown, Legal, A
      <4>2. power[u] \in {"on", "draining"}
        BY ConsentInvIs DEF KInv, TypeOK, PowerState, NoWakeup
      <4>3. ~Rearms(u, A)
        BY <2>3, <4>2 DEF Rearms
      <4> QED
        BY <4>1, <4>3
    <3>2. p \notin sent[u] /\ respHid'[u][p] = respHid[u][p]
      BY <1>2, <2>1, <2>3, <3>1
    <3> QED
      BY <1>1, <2>2, <3>1, <3>2 DEF RespInv
  <2>4. CASE A.src = "draining"
    <3>1. a \in Way(u, p) /\ a.msg = A /\ a.at = x /\ respHid'[u][p] = A.hid
      BY <1>4, <1>6, <2>1, <2>4
    <3>2. \E g \in Downstream(u, p) : A.hid <= reqHid[g][Opp(p)]
      BY <1>1, <2>4, <3>1 DEF NewsInv
    <3>3. \A f \in Way(u, p) : f.at > x /\ f.msg.src = "draining" => A.hid < f.msg.hid
      BY <1>1, <2>4, <3>1 DEF NewsInv
    <3> QED
      BY <2>2, <3>1, <3>2, <3>3
  <2> QED
    BY <1>3, <2>1, <2>3, <2>4 DEF Legal, NewDown, A
<1>9. Overruled(u, p)' <=> p \in {West, North} /\ NewDown(u, p) = "draining"
  BY <1>2 DEF Overruled
<1>10. ASSUME NEW f \in Way(u, p), f.msg.done, power[u] = "draining", f.msg.hid = reqHid[u][p]
       PROVE  \/ \E g \in Downstream(u, p) : Agreed(u, p, g, f.at)'
              \/ Overruled(u, p)'
              \/ /\ p \in {West, North} /\ f.at # x
                 /\ \E h \in Way(u, p)' : h.msg.src = "draining" /\ h.at <= f.at
  <2>1. \/ \E g \in Downstream(u, p) : Agreed(u, p, g, f.at)
        \/ p \in {West, North} /\ \E h \in Way(u, p) : h.msg.src = "draining" /\ h.at <= f.at
    BY <1>1, <1>2, <1>10 DEF DoneInv, Overruled
  <2>2. ASSUME NEW g \in Downstream(u, p), Agreed(u, p, g, f.at) PROVE Agreed(u, p, g, f.at)'
    <3> DEFINE z == f.at
    <3>1. Agreed(u, p, g, z)
      BY <2>2
    <3> HIDE DEF z
    <3>2. Agreed(u, p, g, z)'
      BY <3>1, ReadAgreed
    <3> QED
      BY <3>2 DEF z
  <2>3. ASSUME p \in {West, North}, NEW h \in Way(u, p), h.msg.src = "draining", h.at <= f.at
        PROVE  \/ Overruled(u, p)'
               \/ f.at # x /\ \E i \in Way(u, p)' : i.msg.src = "draining" /\ i.at <= f.at
    <3>1. CASE h.at = x
      <4>1. A.src = "draining"
        BY <1>5, <2>3, <3>1
      <4>2. NewDown(u, p) = "draining"
        BY <1>3, <4>1 DEF Legal, NewDown, A
      <4> QED
        BY <1>9, <2>3, <4>2
    <3>2. CASE h.at # x
      <4>1. h.at > x /\ f.at \in Int /\ h.at \in Int
        BY <1>4, <1>5, <3>2
      <4>2. f.at # x
        BY <1>4, <2>3, <4>1
      <4>3. PICK i \in Way(u, p)' : i.at = h.at /\ i.msg.src = h.msg.src
        BY <1>5, <2>3, <4>1
      <4> QED
        BY <2>3, <4>2, <4>3
    <3> QED
      BY <3>1, <3>2
  <2> QED
    BY <2>1, <2>2, <2>3
<1>11. DoneInv(u, p)'
  <2>1. ASSUME NEW e \in Way(u, p)', e.msg.done
        PROVE  /\ e.msg.hid <= reqHid[u][p]
               /\ power[u] = "draining" /\ e.msg.hid = reqHid[u][p] =>
                    \/ \E g \in Downstream(u, p) : Agreed(u, p, g, e.at)'
                    \/ Overruled(u, p)'
                    \/ p \in {West, North} /\ \E h \in Way(u, p)' : h.msg.src = "draining" /\ h.at <= e.at
    <3>1. PICK f \in Way(u, p) : f.at = e.at /\ f.msg.hid = e.msg.hid /\ f.msg.done
      BY <1>5, <2>1
    <3>2. f.msg.hid <= reqHid[u][p]
      BY <1>1, <3>1 DEF DoneInv
    <3> QED
      BY <1>10, <3>1, <3>2
  <2> QED
    BY <1>2, <2>1 DEF DoneInv
<1>12. TagInv(u, p)'
  <2>1. ASSUME power[u] = "draining", p \in tags'[u], NEW g \in Downstream(u, p)
        PROVE  Agreed(u, p, g, 0)' \/ Overruled(u, p)'
    <3>1. CASE p \in tags[u]
      <4>1. Agreed(u, p, g, 0)
        BY <1>1, <1>2, <2>1, <3>1 DEF TagInv, Overruled
      <4> QED
        BY <4>1, ReadAgreed
    <3>2. CASE Consents(u, p)
      <4>1. A.done /\ A.hid = reqHid[u][p]
        BY <3>2 DEF Consents, A
      <4>2. PICK b \in Way(u, p) : b.msg = A /\ b.at = x
        BY <1>4, <1>5, <4>1 DEF NoMsg
      <4>3. (\E h \in Downstream(u, p) : Agreed(u, p, h, b.at)') \/ Overruled(u, p)'
        <5> HIDE DEF A
        <5> QED
          BY <1>10, <2>1, <4>1, <4>2
      <4>4. ASSUME NEW h \in Downstream(u, p), Agreed(u, p, h, b.at)' PROVE Agreed(u, p, g, 0)'
        <5>1. h = g
          BY <1>1, DownstreamUnique
        <5>2. /\ power'[g] = "on" /\ Opp(p) \in sent'[g] /\ <<g, Opp(p)>> \notin active' /\ ~Hears(g, Opp(p))'
              /\ \A e \in Way(u, p)' : e.at <= x
              /\ \A y \in Flits(u, p)' : y < x
          BY <4>2, <4>4, <5>1 DEF Agreed
        <5>3. ASSUME NEW e \in Way(u, p)' PROVE FALSE
          BY <1>4, <1>5, <5>2
        <5>4. ASSUME NEW y \in Flits(u, p)' PROVE FALSE
          <6>1. y \in Int /\ y >= x
            BY <1>1, <1>4, <1>5, FlitsIs
          <6> QED
            BY <1>4, <5>2, <6>1
        <5> QED
          BY <5>2, <5>3, <5>4 DEF Agreed
      <4> QED
        BY <4>3, <4>4
    <3> QED
      BY <1>2, <2>1, <3>1, <3>2
  <2> QED
    BY <1>2, <2>1 DEF TagInv
<1>13. GoneInv(u, p)'
  <2>1. ASSUME Downstream(u, p) = {}, NEW e \in Way(u, p)'
        PROVE  \E f \in Way(u, p)' : f.msg.src = "off" /\ f.at >= e.at
    <3>1. PICK f \in Way(u, p) : f.at = e.at /\ e.at > x /\ f.at \in Int
      BY <1>5
    <3>2. PICK b \in Way(u, p) : b.msg.src = "off" /\ b.at >= f.at
      BY <1>1, <2>1 DEF GoneInv
    <3>3. b.at > x
      BY <1>4, <1>5, <3>1, <3>2
    <3>4. PICK h \in Way(u, p)' : h.at = b.at /\ h.msg.src = b.msg.src
      BY <1>5, <3>2, <3>3
    <3> QED
      BY <3>1, <3>2, <3>4
  <2> QED
    BY <1>2, <2>1 DEF GoneInv
<1> QED
  BY <1>7, <1>8, <1>11, <1>12, <1>13

LEMMA ReadConsent ==
  ASSUME KInv, ConsentInv, ReadInputs
  PROVE  ConsentInv'
<1>1. /\ UNCHANGED <<power, active>> /\ phase' = "power" /\ occupied \subseteq occupied'
  BY ReadIs
<1>2. ASSUME NEW r \in Router PROVE EarlyInv(r)' /\ StartInv(r)'
  <2>1. StartInv(r)
    BY ConsentInvIs
  <2>2. EarlyInv(r)'
    BY <1>1 DEF EarlyInv
  <2>3. StartInv(r)'
    BY <1>1, <2>1 DEF StartInv
  <2> QED
    BY <2>2, <2>3
<1>3. \A r \in Router : \A p \in MeshPorts(r) : LegalInv(r, p)' /\ IdInv(r, p)' /\ NbrInv(r, p)'
  BY ReadLink
<1>4. \A u \in Router : power'[u] # "off" => \A p \in MeshPorts(u) :
        NewsInv(u, p)' /\ RespInv(u, p)' /\ DoneInv(u, p)' /\ TagInv(u, p)' /\ GoneInv(u, p)'
  BY <1>1, ReadPath
<1>5. NoWakeup'
  BY <1>1, ConsentInvIs DEF NoWakeup
<1> QED
  BY <1>2, <1>3, <1>4, <1>5, ConsentInvNext

-----------------------------------------------------------------------------
(* The other steps, and the start. *)

LEMMA InitConsent == Init => ConsentInv
<1> SUFFICES ASSUME Init PROVE ConsentInv
  OBVIOUS
<1>1. /\ phase = "read" /\ active = {}
      /\ \A r \in Router : power[r] = "on"
      /\ \A r \in Router : \A p \in Port :
           /\ down[r][p] = IF Boundary(r, p) THEN "off" ELSE "on"
           /\ nbr[r][p] = down[r][p]
           /\ out[r][p] = NoMsg /\ wire[r][p] = NoMsg /\ avail[r][p] = NoMsg
  BY DEF Init
<1>2. NoWakeup
  BY <1>1 DEF NoWakeup
<1>3. \A r \in Router : Local(r)
  BY <1>1 DEF Local, EarlyInv, StartInv
<1>4. ASSUME NEW r \in Router, NEW p \in MeshPorts(r) PROVE Link(r, p)
  <2> DEFINE n == Nbr(r, p)
  <2>1. p \in Port /\ n \in Router /\ Opp(p) \in Port /\ ~Boundary(r, p)
    BY MeshLink, PortType
  <2>2. Arrived(r, p) = NoMsg /\ Coming(r, p) = NoMsg /\ Queued(r, p) = NoMsg
    BY <1>1, <2>1 DEF Arrived, Arriving, Coming, Queued
  <2>3. down[r][p] = "on" /\ nbr[r][p] = "on" /\ power[n] = "on"
    BY <1>1, <2>1
  <2>4. (\A d : Legal(NoMsg, d)) /\ By(NoMsg, n, p) /\ (\A b : Speaks(NoMsg, n, b) /\ Noted(NoMsg, n, b) = b)
    BY MessageType DEF Legal, By, Speaks, Noted
  <2>5. LegalInv(r, p) /\ IdInv(r, p)
    BY <2>2, <2>3, <2>4 DEF LegalInv, IdInv
  <2>6. NbrInv(r, p)
    <3> HIDE DEF n
    <3>1. Noted1(r, p) = "on"
      BY <2>2, <2>3, <2>4 DEF Noted1, n
    <3>2. Noted2(r, p) = "on"
      BY <2>2, <2>4, <3>1 DEF Noted2, n
    <3>3. Noted3(r, p) = "on"
      BY <2>2, <2>4, <3>2 DEF Noted3, n
    <3> QED
      BY <2>2, <2>3, <2>4, <3>3 DEF NbrInv, n
  <2> QED
    BY <2>5, <2>6 DEF Link
<1>5. ASSUME NEW u \in Router, NEW p \in MeshPorts(u) PROVE Path(u, p)
  <2>1. p \in Port /\ Opp(p) \in Port /\ down[u][p] = "on" /\ power[u] = "on"
    BY <1>1, OppType, PortType
  <2>2. Way(u, p) = {}
    <3>1. ASSUME NEW e \in Way(u, p) PROVE FALSE
      <4>1. PICK s \in Stretch(u, p), k \in 0 .. 2 : e = [msg |-> Slot(s, k, Opp(p)), at |-> At(s, k, p)]
        BY <2>1, WayIs
      <4>2. e.msg # NoMsg /\ s \in Router
        BY <2>1, WayIs, StretchIs
      <4>3. Slot(s, k, Opp(p)) = NoMsg
        BY <1>1, <2>1, <4>2 DEF Slot
      <4> QED
        BY <4>1, <4>2, <4>3
    <3> QED
      BY <3>1
  <2> QED
    BY <2>1, <2>2 DEF Path, NewsInv, RespInv, DoneInv, TagInv, GoneInv
<1> QED
  BY <1>2, <1>3, <1>4, <1>5 DEF ConsentInv

(* Votes change nothing that consent is about. *)
LEMMA VoteConsent ==
  ASSUME ConsentInv, PolicyTurn \/ UNCHANGED vars
  PROVE  ConsentInv'
<1>1. UNCHANGED <<phase, power, down, nbr, logical, tags, sent, reqHid, respHid, out, wire, avail,
                  active, occupied, flitWire, flitAvail>>
  BY DEF PolicyTurn, vars, ctrl, chans, packets
<1>2. \A u, p : Downstream(u, p)' = Downstream(u, p)
  BY <1>1 DEF Downstream
<1>3. \A u, p : Stretch(u, p)' = Stretch(u, p)
  BY <1>2 DEF Stretch
<1>4. \A s, k, d : Slot(s, k, d)' = Slot(s, k, d)
  BY <1>1 DEF Slot
<1>5. \A u, p : Way(u, p)' = Way(u, p)
  BY <1>3, <1>4 DEF Way
<1>6. \A u, p : Flits(u, p)' = Flits(u, p)
  BY <1>1, <1>3 DEF Flits
<1>7. \A u, p : Hears(u, p)' = Hears(u, p)
  BY <1>5 DEF Hears
<1>8. \A u, p, g, x : Agreed(u, p, g, x)' = Agreed(u, p, g, x)
  BY <1>1, <1>5, <1>6, <1>7 DEF Agreed
<1>9. \A r, p : Arrived(r, p)' = Arrived(r, p) /\ Coming(r, p)' = Coming(r, p) /\ Queued(r, p)' = Queued(r, p)
  BY <1>1 DEF Arrived, Arriving, Coming, Queued
<1>10. \A r, p : Known1(r, p)' = Known1(r, p) /\ Known2(r, p)' = Known2(r, p)
  BY <1>1, <1>9 DEF Known, Known1, Known2
<1>11. NoWakeup'
  BY <1>1 DEF NoWakeup, ConsentInv
<1>12. ASSUME NEW r \in Router PROVE EarlyInv(r)' /\ StartInv(r)'
  BY <1>1, ConsentInvIs DEF EarlyInv, StartInv
<1>13. ASSUME NEW r \in Router, NEW p \in MeshPorts(r)
       PROVE  LegalInv(r, p)' /\ IdInv(r, p)' /\ NbrInv(r, p)'
  <2>1. LegalInv(r, p)' /\ IdInv(r, p)'
    BY <1>1, <1>9, <1>10, ConsentInvIs DEF LegalInv, IdInv
  <2>2. Noted1(r, p)' = Noted1(r, p) /\ Noted2(r, p)' = Noted2(r, p) /\ Noted3(r, p)' = Noted3(r, p)
    BY <1>1, <1>9 DEF Noted1, Noted2, Noted3
  <2>3. NbrInv(r, p)'
    BY <1>1, <1>9, <2>2, ConsentInvIs DEF NbrInv
  <2> QED
    BY <2>1, <2>3
<1>14. ASSUME NEW u \in Router, power'[u] # "off", NEW p \in MeshPorts(u)
       PROVE  NewsInv(u, p)' /\ RespInv(u, p)' /\ DoneInv(u, p)' /\ TagInv(u, p)' /\ GoneInv(u, p)'
  <2>1. NewsInv(u, p) /\ RespInv(u, p) /\ DoneInv(u, p) /\ TagInv(u, p) /\ GoneInv(u, p)
    BY <1>1, <1>14, ConsentInvIs
  <2>2. NewsInv(u, p)' /\ RespInv(u, p)' /\ GoneInv(u, p)'
    BY <1>1, <1>2, <1>5, <2>1 DEF NewsInv, RespInv, GoneInv
  <2>3. Overruled(u, p)' = Overruled(u, p)
    BY <1>1 DEF Overruled
  <2>4. DoneInv(u, p)' /\ TagInv(u, p)'
    BY <1>1, <1>2, <1>5, <1>8, <2>1, <2>3 DEF DoneInv, TagInv
  <2> QED
    BY <2>2, <2>4
<1> QED
  BY <1>11, <1>12, <1>13, <1>14, ConsentInvNext

LEMMA NextConsent ==
  ASSUME KInv, ConsentInv, [Next]_vars, NoWakeup'
  PROVE  ConsentInv'
<1>1. CASE PolicyTurn \/ UNCHANGED vars
  BY <1>1, VoteConsent
<1>2. CASE ReadInputs
  BY <1>2, ReadConsent
<1>3. CASE PowerStateEvaluate
  BY <1>3, PowerConsent
<1>4. CASE Evaluate
  BY <1>4, EvalConsent
<1>5. CASE WriteOutputs
  BY <1>5, WriteConsent
<1> QED
  BY <1>1, <1>2, <1>3, <1>4, <1>5 DEF Next

(* What a router that is not off reads is on its way to it. *)
LEMMA ReadsWay ==
  ASSUME KInv, phase = "read", NEW u \in Router, NEW p \in MeshPorts(u), Arriving(u, p) # NoMsg
  PROVE  \E e \in Way(u, p) : e.msg = Arriving(u, p)
<1>1. p \in Port /\ ~Boundary(u, p)
  BY PortType
<1>2. Nbr(u, p) \in Stretch(u, p)
  BY <1>1, StretchOn
<1>3. Arrived(u, p) = Arriving(u, p)
  BY DEF Arrived
<1>4. [msg |-> Arrived(u, p), at |-> At(Nbr(u, p), 0, p)] \in Way(u, p)
  BY <1>1, <1>2, <1>3, LinkWay
<1> QED
  BY <1>3, <1>4

(* The assertions of _HandshakeEvaluate, by the state of the router. *)
LEMMA AssertsHold ==
  ASSUME KInv, ConsentInv, phase = "read", NEW r \in Router, NEW p \in Port
  PROVE  /\ power[r] = "on" => AssertOn(r, p)
         /\ power[r] = "draining" => AssertDraining(r, p)
         /\ power[r] = "off" => AssertOff(r, p)
<1> DEFINE m == Arriving(r, p)
           d == down[r][p]
<1>1. CASE m = NoMsg
  <2>1. m.src = "none" /\ m.done = FALSE
    BY <1>1 DEF NoMsg
  <2> QED
    BY <2>1 DEF AssertOn, AssertDraining, AssertOff, Consents
<1>2. CASE m # NoMsg
  <2>1. p \in MeshPorts(r)
    BY <1>2, ArrivingType, PortType DEF KInv
  <2>2. Legal(m, d)
    <3>1. LegalInv(r, p) /\ Arrived(r, p) = m
      BY <2>1, ConsentInvIs DEF Arrived
    <3> QED
      BY <3>1 DEF LegalInv
  <2>3. PICK e \in Way(r, p) : e.msg = m
    BY <1>2, <2>1, ReadsWay
  <2>4. power[r] # "off" =>
          NewsInv(r, p) /\ DoneInv(r, p) /\ TagInv(r, p) /\ ~Overruled(r, p)
    BY <2>1, ConsentInvIs DEF Overruled
  <2>5. power[r] # "off" /\ m.src = "off" => power[r] = "on" /\ p \in sent[r]
    BY <2>3, <2>4 DEF NewsInv
  <2>6. ASSUME power[r] = "draining", Consents(r, p), p \in tags[r] PROVE FALSE
    <3>1. m.done /\ m.hid = reqHid[r][p]
      BY <2>6 DEF Consents
    <3>2. CASE \E g \in Downstream(r, p) : TRUE
      <4>1. PICK g \in Downstream(r, p) : Agreed(r, p, g, 0)
        BY <2>4, <2>6, <3>2 DEF TagInv
      <4> QED
        BY <2>3, <4>1, AgreedNow
    <3>3. CASE ~\E g \in Downstream(r, p) : TRUE
      <4>1. PICK f \in Way(r, p) : f.msg.src = "draining"
        BY <2>3, <2>4, <2>6, <3>1, <3>3 DEF DoneInv
      <4> QED
        BY <2>4, <2>6, <3>3, <4>1 DEF NewsInv
    <3> QED
      BY <3>2, <3>3
  <2>7. power[r] = "on" => AssertOn(r, p)
    BY <2>2, <2>5 DEF AssertOn, Legal
  <2>8. power[r] = "draining" => AssertDraining(r, p)
    BY <2>2, <2>5, <2>6 DEF AssertDraining, Legal
  <2>9. power[r] = "off" => AssertOff(r, p)
    BY <2>2 DEF AssertOff, Legal
  <2> QED
    BY <2>7, <2>8, <2>9
<1> QED
  BY <1>1, <1>2

LEMMA ConsentAsserts == KInv /\ ConsentInv => HandshakesExpected
<1>1. ASSUME KInv, ConsentInv, phase = "read", NEW r \in Router PROVE HandshakeAsserts(r)
  <2>1. power[r] \in {"on", "draining", "off"}
    BY <1>1, ConsentInvIs DEF KInv, TypeOK, PowerState, NoWakeup
  <2> QED
    BY <1>1, <2>1, AssertsHold DEF HandshakeAsserts
<1> QED
  BY <1>1 DEF HandshakesExpected

(* A router goes off in PowerStateEvaluate only. *)
LEMMA SwitchesOff ==
  ASSUME KInv, ConsentInv, [Next]_vars, NEW r \in Router, power'[r] = "off", power[r] # "off"
  PROVE  phase = "power" /\ PowersOff(r) /\ power[r] = "draining" /\ \A n \in Router : power'[n] = NextPower(n)
<1>1. power' # power
  OBVIOUS
<1>2. PowerStateEvaluate
  BY <1>1 DEF Next, PolicyTurn, ReadInputs, Evaluate, WriteOutputs, ctrl, vars
<1>3. phase = "power" /\ \A n \in Router : power'[n] = NextPower(n)
  BY <1>2 DEF PowerStateEvaluate
<1> QED
  BY <1>3, Decides

LEMMA SwitchAgreed ==
  ASSUME KInv, ConsentInv, [Next]_vars, NEW r \in Router, power'[r] = "off", power[r] # "off",
         NEW p \in Port, NEW n \in Downstream(r, p)
  PROVE  /\ power'[n] = "on" /\ down[n][Opp(p)] = "draining" /\ Opp(p) \in sent[n]
         /\ <<n, Opp(p)>> \notin active /\ Flits(r, p) = {}
<1>1. phase = "power" /\ PowersOff(r) /\ \A i \in Router : power'[i] = NextPower(i)
  BY SwitchesOff
<1>2. n \in Router /\ p \in MeshPorts(r)
  BY Facing
<1>3. /\ Agreed(r, p, n, 0) /\ Flits(r, p) = {}
      /\ NextPower(n) = "on" /\ down[n][Opp(p)] = "draining"
  BY <1>1, <1>2, GoesOff
<1>4. Opp(p) \in sent[n] /\ <<n, Opp(p)>> \notin active
  BY <1>3, AgreedIs
<1> QED
  BY <1>1, <1>2, <1>3, <1>4

(* As long as nobody wakes up, packets come from the downstream router. *)
LEMMA SenderIs ==
  ASSUME KInv, NoWakeup, NEW r \in Router, NEW p \in Port, NEW n \in Sender(r, p)
  PROVE  /\ n \in Downstream(r, p)
         /\ \A q \in {n} \cup (Ahead(r, p) \cap Ahead(n, Opp(p))) : q \in Stretch(r, p)
<1>1. /\ n \in Ahead(r, p) /\ power[n] \in Idle
      /\ \A s \in Ahead(r, p) : n \in Ahead(s, p) => power[s] \in Bypassed
  BY DEF Sender
<1>2. ASSUME NEW s \in Router, power[s] \in Bypassed PROVE power[s] = "off"
  BY <1>2 DEF NoWakeup, Bypassed
<1>3. n \in Downstream(r, p)
  BY <1>1, <1>2, AheadAlong, IdleType DEF Downstream
<1>4. ASSUME NEW q \in Ahead(r, p), q \in Ahead(n, Opp(p)) PROVE q \in Stretch(r, p)
  <2>1. n \in Router /\ q \in Router /\ Opp(p) \in Port
    BY <1>1, AheadAlong, OppType
  <2>2. Along(q, Opp(p)) > Along(n, Opp(p))
    BY <1>4, <2>1, AheadAlong
  <2>3. /\ Along(q, p) \in Int /\ Along(q, Opp(p)) = K - 1 - Along(q, p)
        /\ Along(n, p) \in Int /\ Along(n, Opp(p)) = K - 1 - Along(n, p)
    BY <2>1, AlongBack
  <2>4. Along(q, p) <= Along(n, p)
    BY <2>2, <2>3, KAssumption
  <2> QED
    BY <1>3, <1>4, <2>4, StretchIs
<1>5. n \in Stretch(r, p)
  BY <1>3, StretchIs
<1> QED
  BY <1>3, <1>4, <1>5

LEMMA NoFlits ==
  ASSUME NEW r \in Router, NEW p \in Port, Flits(r, p) = {}, NEW q \in Stretch(r, p)
  PROVE  <<q, Opp(p)>> \notin flitWire \cup flitAvail
<1>1. <<q, Opp(p)>> \in flitAvail => At(q, 0, p) \in Flits(r, p)
  BY DEF Flits
<1>2. <<q, Opp(p)>> \in flitWire => At(q, 1, p) \in Flits(r, p)
  BY DEF Flits
<1> QED
  BY <1>1, <1>2

-----------------------------------------------------------------------------
(* As long as no router wakes up, that is up to the first transition to    *)
(* power_wakeup in PowerStateEvaluate, whatever else happens, a drain-done *)
(* answer that _HandshakeEvaluate takes for consent comes from the router  *)
(* which is downstream now, is given to this drain, and nothing follows it *)
(* through the routers that are off.                                       *)
THEOREM ConsentIsReal == Spec /\ []NoWakeup => []ConsentInv
<1>1. KInv /\ ConsentInv /\ [Next]_vars /\ NoWakeup' => ConsentInv'
  BY NextConsent
<1> QED
  BY <1>1, InitConsent, BeliefsFollow, PTL DEF Spec

(* Until then no assertion of _HandshakeEvaluate fails, in whatever order  *)
(* the routers drain, give up, cancel and go off, and however their        *)
(* handshakes are relayed.                                                 *)
THEOREM AssertionsHold == Spec /\ []NoWakeup => []HandshakesExpected
  BY ConsentAsserts, ConsentIsReal, BeliefsFollow, PTL

(* And when PowerStateEvaluate switches a router off, each downstream      *)
(* router is on, stays on, knows of the drain and has answered it.         *)
THEOREM ConsentPrecedesOff == Spec /\ []NoWakeup => OffByConsent
<1>1. ASSUME KInv, ConsentInv, [Next]_vars, NEW r \in Router, power'[r] = "off", power[r] # "off",
             NEW p \in Port, NEW n \in Downstream(r, p)
      PROVE  power'[n] = "on" /\ down[n][Opp(p)] = "draining" /\ Opp(p) \in sent[n]
  BY <1>1, SwitchAgreed
<1>2. KInv /\ ConsentInv /\ [Next]_vars =>
        [\A r \in Router : power'[r] = "off" /\ power[r] # "off" =>
           \A p \in Port : \A n \in Downstream(r, p) :
             power[n] # "wakeup" =>
               /\ power'[n] = "on"
               /\ down[n][Opp(p)] = "draining"
               /\ Opp(p) \in sent[n]]_vars
  BY <1>1
<1> QED
  BY <1>2, ConsentIsReal, BeliefsFollow, PTL DEF Spec, OffByConsent

(* And no packet of the router whose packets reach it is under way to a    *)
(* router that PowerStateEvaluate switches off: none in that router's      *)
(* pipeline, none on a channel between the two.                            *)
THEOREM OffInSilence == Spec /\ []NoWakeup => SwitchesInSilence
<1>1. ASSUME KInv, ConsentInv, [Next]_vars, NEW r \in Router, power'[r] # power[r],
             power'[r] = "off" \/ power[r] = "wakeup",
             NEW p \in Port, NEW n \in Sender(r, p)
      PROVE  /\ <<n, Opp(p)>> \notin active
             /\ \A q \in {n} \cup (Ahead(r, p) \cap Ahead(n, Opp(p))) :
                  <<q, Opp(p)>> \notin flitWire \cup flitAvail
  <2>1. NoWakeup /\ power'[r] = "off" /\ power[r] # "off"
    BY <1>1, ConsentInvIs DEF NoWakeup
  <2>2. /\ n \in Downstream(r, p)
        /\ \A q \in {n} \cup (Ahead(r, p) \cap Ahead(n, Opp(p))) : q \in Stretch(r, p)
    BY <1>1, <2>1, SenderIs
  <2>3. <<n, Opp(p)>> \notin active /\ Flits(r, p) = {}
    BY <1>1, <2>1, <2>2, SwitchAgreed
  <2> QED
    BY <2>2, <2>3, NoFlits
<1>2. KInv /\ ConsentInv /\ [Next]_vars =>
        [\A r \in Router :
           power'[r] # power[r] /\ (power'[r] = "off" \/ power[r] = "wakeup") =>
             \A p \in Port : \A n \in Sender(r, p) :
               /\ <<n, Opp(p)>> \notin active
               /\ \A q \in {n} \cup (Ahead(r, p) \cap Ahead(n, Opp(p))) :
                    <<q, Opp(p)>> \notin flitWire \cup flitAvail]_vars
  BY <1>1
<1> QED
  BY <1>2, ConsentIsReal, BeliefsFollow, PTL DEF Spec, SwitchesInSilence

-----------------------------------------------------------------------------
(* Who wakes up. *)

NobodyAsks == \A r \in Router : ~WakeRequested(r)
AllGflov   == \A r \in Router : policy[r] = "gflov"

LEMMA StaysAsleep ==
  ASSUME NoWakeup, NobodyAsks, [Next]_vars
  PROVE  NoWakeup'
<1>1. CASE PowerStateEvaluate
  <2>1. \A r \in Router : power'[r] = NextPower(r)
    BY <1>1 DEF PowerStateEvaluate
  <2>2. ASSUME NEW r \in Router PROVE NextPower(r) # "wakeup"
    <3>1. ~StartsWakeup(r) /\ power[r] # "wakeup"
      BY DEF StartsWakeup, NobodyAsks, NoWakeup
    <3> QED
      BY <3>1 DEF NextPower
  <2> QED
    BY <2>1, <2>2 DEF NoWakeup
<1>2. CASE PolicyTurn \/ ReadInputs \/ Evaluate \/ WriteOutputs \/ UNCHANGED vars
  <2>1. UNCHANGED power
    BY <1>2 DEF PolicyTurn, ReadInputs, Evaluate, WriteOutputs, ctrl, vars
  <2> QED
    BY <2>1 DEF NoWakeup
<1> QED
  BY <1>1, <1>2 DEF Next

(* PowerStateEvaluate wakes a router only up if its policy lets somebody   *)
(* ask: No-FLOV always does, R-FLOV when _wakeup_signal is up, G-FLOV not. *)
THEOREM AsleepUntilAsked == Spec /\ []NobodyAsks => []NoWakeup
<1>1. Init => NoWakeup
  BY DEF Init, NoWakeup
<1>2. NoWakeup /\ NobodyAsks /\ [Next]_vars => NoWakeup'
  BY StaysAsleep
<1> QED
  BY <1>1, <1>2, PTL DEF Spec

(* So a mesh in which no vote moves _flov_policy away from G-FLOV meets    *)
(* all the assertions of _HandshakeEvaluate, and switches routers off by   *)
(* consent and in silence only, however busy the nodes are.                *)
THEOREM GflovIsSafe ==
  Spec /\ []AllGflov => []HandshakesExpected /\ OffByConsent /\ SwitchesInSilence
<1>1. AllGflov => NobodyAsks
  BY DEF AllGflov, NobodyAsks, WakeRequested
<1>2. Spec /\ []AllGflov => []NoWakeup
  BY <1>1, AsleepUntilAsked, PTL
<1> QED
  BY <1>2, AssertionsHold, ConsentPrecedesOff, OffInSilence, PTL
=============================================================================
