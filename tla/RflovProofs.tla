---------------------------- MODULE RflovProofs ----------------------------
(***************************************************************************)
(* Proofs about the restricted fly-over protocol, for every K, every set   *)
(* of gateable routers, every traffic and every threshold.                 *)
(*                                                                         *)
(* The inductive invariant speaks of a router r, one of its mesh ports p,  *)
(* the neighbour n = Nbr(r, p) behind it and n's port q = Opp(p) back to   *)
(* r.  Handshakes travel from r to n in out, wire and avail [r][p], and    *)
(* answers come back in out, wire and avail [n][q].                        *)
(***************************************************************************)
EXTENDS Rflov, TLAPS

(* No announcement of r is on its way to the neighbour behind p: what was  *)
(* at the channel's output has been read once the read phase is over.      *)
NoUnread(r, p) ==
  /\ out[r][p].new = "none"
  /\ wire[r][p].new = "none"
  /\ phase = "read" => avail[r][p].new = "none"

(* A handshake that is not an answer is an announcement, and the output    *)
(* queues are empty until the power state machines have run.               *)
Pure(m)   == m.new = "none" /\ ~m.done => m = NoMsg
Shape ==
  /\ \A r \in Router : \A p \in Port : Pure(out[r][p]) /\ Pure(wire[r][p]) /\ Pure(avail[r][p])
  /\ phase \in {"read", "power"} => \A r \in Router : \A p \in Port : out[r][p] = NoMsg

(* The last announcement of r, or what n believes if there is none under   *)
(* way, is the state of r.                                                 *)
Told(r, p) ==
  /\ NoUnread(r, p) => view[Nbr(r, p)][Opp(p)] = power[r]
  /\ out[r][p].new # "none" => out[r][p].new = power[r]
  /\ out[r][p].new = "none" /\ wire[r][p].new # "none" => wire[r][p].new = power[r]
  /\ phase = "read" /\ wire[r][p].new = "none" /\ avail[r][p].new # "none"
       => avail[r][p].new = power[r]

(* Only a router that is off is known, or announced, to be off. *)
OffIsFinal(r, p) ==
  power[r] # "off" =>
    /\ view[Nbr(r, p)][Opp(p)] # "off"
    /\ out[r][p].new # "off" /\ wire[r][p].new # "off" /\ avail[r][p].new # "off"

(* Handshake identifiers grow with every announcement, so an identifier    *)
(* that is still the current one belongs to the last announcement.         *)
HidBound(m, r, p, later) ==
  m.new # "none" /\ ~m.done =>
    /\ m.hid <= reqHid[r][p]
    /\ later => m.hid < reqHid[r][p]

Hids(r, p) ==
  LET n == Nbr(r, p)  q == Opp(p) IN
  /\ respHid[n][q] <= reqHid[r][p]
  /\ ~NoUnread(r, p) => respHid[n][q] < reqHid[r][p]
  /\ HidBound(out[r][p], r, p, FALSE)
  /\ HidBound(wire[r][p], r, p, out[r][p].new # "none")
  /\ HidBound(avail[r][p], r, p, out[r][p].new # "none" \/ wire[r][p].new # "none")
  /\ out[n][q].done => out[n][q].hid <= reqHid[r][p]
  /\ wire[n][q].done => wire[n][q].hid <= reqHid[r][p]
  /\ avail[n][q].done => avail[n][q].hid <= reqHid[r][p]

(* A router that drains sees no drain to its West or North. *)
Priority(r) ==
  power[r] = "draining" /\ phase # "power" =>
    \A p \in {West, North} \cap MeshPorts(r) : view[r][p] # "draining"

(* A neighbour that consents knows of the drain and is not off; one that   *)
(* yields to r is on.                                                      *)
Consent(r, p) ==
  LET n == Nbr(r, p)  q == Opp(p) IN
  Granted(r, p) =>
    /\ NoUnread(r, p)
    /\ q \in sent[n]
    /\ power[n] # "off"
    /\ q \in {West, North} => power[n] = "on"

(* A neighbour that consents while it drains itself announced its drain    *)
(* before it consented.                                                    *)
Order(r, p) ==
  LET n == Nbr(r, p)  q == Opp(p) IN
  power[n] = "draining" =>
    /\ GrantTag(r, p) => NoUnread(n, q)
    /\ GrantAvail(r, p) => out[n][q].new = "none" /\ wire[n][q].new = "none"
    /\ GrantWire(r, p) => out[n][q].new = "none"

(* The neighbours of a router that is off are on, and know of its drain. *)
OffAlone(r, p) ==
  power[r] = "off" =>
    /\ power[Nbr(r, p)] = "on"
    /\ view[Nbr(r, p)][Opp(p)] \in {"draining", "off"}
    /\ out[r][p].new \in {"none", "off"}
    /\ wire[r][p].new \in {"none", "off"}
    /\ phase = "read" => avail[r][p].new \in {"none", "off"}

(* The link to a neighbour that drains carries nothing after the answer. *)
Silent(r, p) == view[r][p] = "draining" /\ p \in sent[r] => <<r, p>> \notin active

LinkInv(r, p) ==
  /\ Told(r, p)
  /\ OffIsFinal(r, p)
  /\ Hids(r, p)
  /\ Consent(r, p)
  /\ Order(r, p)
  /\ OffAlone(r, p)
  /\ Silent(r, p)

IInv ==
  /\ TypeOK
  /\ Shape
  /\ \A r \in Router : Priority(r)
  /\ \A r \in Router : \A p \in MeshPorts(r) : LinkInv(r, p)

-----------------------------------------------------------------------------
(* The mesh: a mesh port leads to a neighbour whose opposite port is a     *)
(* mesh port that leads back, and one of the two is a West or North port.  *)
LEMMA MeshLink ==
  ASSUME NEW r \in Router, NEW p \in MeshPorts(r)
  PROVE  /\ p \in Port
         /\ Nbr(r, p) \in Router
         /\ Opp(p) \in MeshPorts(Nbr(r, p))
         /\ Opp(p) \in Port
         /\ Nbr(Nbr(r, p), Opp(p)) = r
         /\ Opp(Opp(p)) = p
         /\ Opp(p) \in {West, North} <=> p \notin {West, North}
<1> USE KAssumption DEF Router, Coord, MeshPorts, Port, Boundary, Nbr, Opp, Succ, Pred,
                        West, North
<1>0. PICK i \in Coord, j \in Coord : r = <<i, j>>
  OBVIOUS
<1>1. p \in 0 .. 3 /\ ~Boundary(r, p)
  OBVIOUS
<1>2. CASE p = 0
  BY <1>0, <1>1, <1>2
<1>3. CASE p = 1
  BY <1>0, <1>1, <1>3
<1>4. CASE p = 2
  BY <1>0, <1>1, <1>4
<1>5. CASE p = 3
  BY <1>0, <1>1, <1>5
<1> QED
  BY <1>1, <1>2, <1>3, <1>4, <1>5

(* Every channel leads to a router, by one of its ports.                   *)
LEMMA AnyLink ==
  ASSUME NEW r \in Router, NEW p \in Port
  PROVE  Nbr(r, p) \in Router /\ Opp(p) \in Port
<1> USE KAssumption DEF Router, Coord, Port, Nbr, Opp, Succ, Pred
<1>0. PICK i \in Coord, j \in Coord : r = <<i, j>>
  OBVIOUS
<1>1. p = 0 \/ p = 1 \/ p = 2 \/ p = 3
  OBVIOUS
<1> QED
  BY <1>0, <1>1

-----------------------------------------------------------------------------
(* Type correctness.                                                       *)

(* What one step of the power state machine may do, and announces.         *)
LEMMA PowerStep ==
  ASSUME NEW r \in Router, power[r] \in PowerState
  PROVE  /\ NextPower(r) \in PowerState
         /\ power[r] = "off" => NextPower(r) = "off"
         /\ power[r] = "on" =>
              NextPower(r) = IF StartsDraining(r) THEN "draining" ELSE "on"
         /\ power[r] = "draining" => NextPower(r) =
              IF PowersOff(r) THEN "off"
              ELSE IF Cancels(r) \/ Defers(r) \/ GivesUp(r) THEN "on" ELSE "draining"
         /\ NextPower(r) = power[r] => AnnouncesOn(r) = {}
         /\ NextPower(r) # power[r] =>
              MeshPorts(r) \subseteq AnnouncesOn(r) /\ AnnouncesOn(r) \subseteq Port
<1>1. StartsDraining(r) => power[r] = "on"
  BY DEF StartsDraining
<1>2. PowersOff(r) => power[r] = "draining" /\ ~Cancels(r) /\ ~Defers(r) /\ ~GivesUp(r)
  BY DEF PowersOff, Cancels, Defers, GivesUp
<1>3. Cancels(r) \/ Defers(r) \/ GivesUp(r) => power[r] = "draining"
  BY DEF Cancels, Defers, GivesUp
<1>4. NextPower(r) = IF StartsDraining(r) THEN "draining"
                     ELSE IF PowersOff(r) THEN "off"
                     ELSE IF Cancels(r) \/ Defers(r) \/ GivesUp(r) THEN "on"
                     ELSE power[r]
  BY <1>1, <1>2, <1>3 DEF NextPower, PowerState
<1>5. Defers(r) => NextPower(r) # power[r]
  BY <1>1, <1>2, <1>3, <1>4
<1>6. AnnouncesOn(r) = IF NextPower(r) = power[r] THEN {}
                       ELSE IF Defers(r) THEN Port ELSE MeshPorts(r)
  BY <1>5 DEF AnnouncesOn
<1>7. MeshPorts(r) \subseteq Port
  BY DEF MeshPorts
<1> QED
  BY <1>1, <1>2, <1>3, <1>4, <1>6, <1>7 DEF PowerState

(* The initial state is well-typed.                                        *)
LEMMA InitTypeOK == Init => TypeOK
<1> SUFFICES ASSUME Init PROVE TypeOK
  OBVIOUS
<1>1. NoMsg \in Message
  BY DEF NoMsg, Message, PowerState
<1> QED
  BY <1>1 DEF Init, TypeOK, PowerState

(* The calls of the traffic manager keep timers and wake-up signals typed. *)
LEMMA NodeCycleTypes ==
  TypeOK /\ ReadInputs => timer' \in [Router -> Nat] /\ wake' \subseteq Router
<1> SUFFICES ASSUME TypeOK, ReadInputs
             PROVE  timer' \in [Router -> Nat] /\ wake' \subseteq Router
  OBVIOUS
<1>1. PICK busy \in SUBSET MayBeBusy : NodeCycle(busy)
  BY DEF ReadInputs
<1>2. busy \subseteq Router
  BY <1>1, RflovAssumption DEF MayBeBusy
<1>3. timer \in [Router -> Nat] /\ wake \subseteq Router
  BY DEF TypeOK
<1> QED
  BY <1>1, <1>2, <1>3 DEF NodeCycle, IdleDetected

(* Every phase keeps every variable in its type.                           *)
LEMMA TypeOKStep == TypeOK /\ [Next]_vars => TypeOK'
<1> SUFFICES ASSUME TypeOK, [Next]_vars PROVE TypeOK'
  OBVIOUS
<1>0. NoMsg \in Message
  BY DEF NoMsg, Message, PowerState
<1>1. CASE ReadInputs
  <2>1. \A r \in Router : \A p \in Port : Arriving(r, p) \in Message
    BY AnyLink DEF Arriving, TypeOK
  <2>2. view' \in [Router -> [Port -> PowerState]]
    <3>1. ASSUME NEW r \in Router, NEW p \in Port, UpdatesView(r, p, Arriving(r, p))
          PROVE  Arriving(r, p).new \in PowerState
      BY <3>1 DEF UpdatesView, PowerState
    <3> QED
      BY <1>1, <3>1 DEF ReadInputs, TypeOK
  <2>3. respHid' \in [Router -> [Port -> Nat]]
    <3>1. \A r \in Router : \A p \in Port : Arriving(r, p).hid \in Nat
      BY <2>1 DEF Message
    <3> QED
      BY <1>1, <3>1 DEF ReadInputs, TypeOK
  <2>4. tags' \in [Router -> SUBSET Port] /\ sent' \in [Router -> SUBSET Port]
    BY <1>1 DEF ReadInputs, TypeOK
  <2>5. phase' = "power" /\ occupied' \subseteq Gateable
    BY <1>1 DEF ReadInputs, TypeOK
  <2>6. timer' \in [Router -> Nat] /\ wake' \subseteq Router
    BY <1>1, NodeCycleTypes
  <2> QED
    BY <1>1, <2>2, <2>3, <2>4, <2>5, <2>6 DEF ReadInputs, TypeOK, chans
<1>2. CASE PowerStateEvaluate
  <2>1. \A r \in Router : NextPower(r) \in PowerState
    BY PowerStep DEF TypeOK
  <2>2. power' \in [Router -> PowerState]
    BY <1>2, <2>1 DEF PowerStateEvaluate
  <2>3. tags' \in [Router -> SUBSET Port]
    <3>1. \A r \in Router : BoundaryPorts(r) \in SUBSET Port
      BY DEF BoundaryPorts
    <3>2. \A r \in Router : tags[r] \in SUBSET Port
      BY DEF TypeOK
    <3>3. \A r \in Router : StartsDraining(r) => power[r] = "on"
      BY DEF StartsDraining
    <3>4. tags' = [r \in Router |->
                    IF StartsDraining(r) THEN BoundaryPorts(r)
                    ELSE IF power[r] = "draining" /\ NextPower(r) = "draining"
                         THEN tags[r] ELSE {}]
      BY <1>2, <3>3 DEF PowerStateEvaluate
    <3> QED
      BY <3>1, <3>2, <3>4
  <2>4. timer' \in [Router -> Nat] /\ reqHid' \in [Router -> [Port -> Nat]]
    BY <1>2 DEF PowerStateEvaluate, TypeOK
  <2>5. out' \in [Router -> [Port -> Message]]
    <3>1. \A r \in Router : \A p \in Port :
            [new |-> NextPower(r), done |-> FALSE, hid |-> reqHid[r][p] + 1] \in Message
      BY <2>1 DEF Message, TypeOK
    <3> QED
      BY <1>0, <1>2, <3>1 DEF PowerStateEvaluate
  <2>6. wake' \subseteq Router /\ phase' = "eval"
    BY <1>2 DEF PowerStateEvaluate, TypeOK
  <2> QED
    BY <1>2, <2>2, <2>3, <2>4, <2>5, <2>6 DEF PowerStateEvaluate, TypeOK, packets
<1>3. CASE Evaluate
  <2>1. PICK act \in SUBSET Traffic :
          /\ active' = act
          /\ occupied' \subseteq Gateable
          /\ out' = [r \in Router |-> [p \in Port |->
                      IF Responds(r, p, act)
                      THEN [new |-> out[r][p].new, done |-> TRUE, hid |-> respHid[r][p]]
                      ELSE out[r][p]]]
          /\ sent' = [r \in Router |-> sent[r] \cup {p \in Port : Responds(r, p, act)}]
    BY <1>3 DEF Evaluate
  <2>2. out' \in [Router -> [Port -> Message]]
    <3>1. \A r \in Router : \A p \in Port :
            [new |-> out[r][p].new, done |-> TRUE, hid |-> respHid[r][p]] \in Message
      BY DEF Message, TypeOK
    <3> QED
      BY <2>1, <3>1 DEF TypeOK
  <2>3. sent' \in [Router -> SUBSET Port]
    BY <2>1 DEF TypeOK
  <2> QED
    BY <1>3, <2>1, <2>2, <2>3 DEF Evaluate, TypeOK
<1>4. CASE WriteOutputs
  <2>1. flitWire' \subseteq Link
    <3>1. Traffic \subseteq Link
      BY RflovAssumption DEF Link
    <3>2. FliesOver \subseteq Link
      BY AnyLink DEF FliesOver, Link, TypeOK
    <3> QED
      BY <1>4, <3>1, <3>2 DEF WriteOutputs, TypeOK
  <2>2. out' \in [Router -> [Port -> Message]]
    BY <1>0, <1>4 DEF WriteOutputs
  <2> QED
    BY <1>4, <2>1, <2>2 DEF WriteOutputs, TypeOK, ctrl
<1>5. CASE UNCHANGED vars
  BY <1>5 DEF TypeOK, vars, ctrl, chans, packets
<1> QED
  BY <1>1, <1>2, <1>3, <1>4, <1>5 DEF Next

(* Every variable of the protocol keeps to its type: in particular a view  *)
(* of a neighbour is always a power state, never the "none" of an answer,  *)
(* although _HandshakeEvaluate reads the state field of every handshake.   *)
THEOREM TypeCorrect == Spec => []TypeOK
<1> QED
  BY InitTypeOK, TypeOKStep, PTL DEF Spec

-----------------------------------------------------------------------------
(* The inductive invariant.                                                *)

Regular == <<phase, power, view, tags, sent, reqHid, respHid, out, wire, avail, active>>

(* The inductive invariant holds before the first cycle.                   *)
LEMMA InitIInv == Init => IInv
<1> SUFFICES ASSUME Init PROVE IInv
  OBVIOUS
<1>1. TypeOK
  BY InitTypeOK
<1>2. Shape
  BY DEF Init, Shape, Pure, NoMsg
<1>3. \A r \in Router : Priority(r)
  BY DEF Init, Priority
<1>4. ASSUME NEW r \in Router, NEW p \in MeshPorts(r) PROVE LinkInv(r, p)
  <2> DEFINE n == Nbr(r, p)
             q == Opp(p)
  <2>1. /\ p \in Port /\ n \in Router /\ q \in Port
        /\ q \in MeshPorts(n)
    BY MeshLink
  <2>2. ~Boundary(n, q)
    BY <2>1 DEF MeshPorts
  <2>3. /\ power[r] = "on" /\ power[n] = "on" /\ view[n][q] = "on" /\ active = {}
        /\ \A s \in Router : \A k \in Port :
             out[s][k] = NoMsg /\ wire[s][k] = NoMsg /\ avail[s][k] = NoMsg
        /\ \A s \in Router : \A k \in Port : reqHid[s][k] = 0 /\ respHid[s][k] = 0
    BY <2>1, <2>2 DEF Init
  <2>4. NoMsg.new = "none" /\ NoMsg.done = FALSE
    BY DEF NoMsg
  <2>5. Told(r, p) /\ OffIsFinal(r, p)
    BY <2>1, <2>3, <2>4 DEF Told, OffIsFinal
  <2>6. Hids(r, p)
    BY <2>1, <2>3, <2>4 DEF Hids, HidBound, NoUnread
  <2>7. Consent(r, p) /\ Order(r, p) /\ OffAlone(r, p) /\ Silent(r, p)
    BY <2>1, <2>3, <2>4 DEF Consent, Order, OffAlone, Silent, Granted, GrantOut, GrantWire,
                            GrantAvail, GrantTag, Answers
  <2> QED
    BY <2>5, <2>6, <2>7 DEF LinkInv
<1> QED
  BY <1>1, <1>2, <1>3, <1>4 DEF IInv

(* A step that leaves the protocol alone. *)
LEMMA IInvUnchanged == IInv /\ TypeOK' /\ UNCHANGED Regular => IInv'
BY DEF IInv, Regular, Shape, Pure, Priority, LinkInv, Told, OffIsFinal, Hids, HidBound, Consent,
       Order, OffAlone, Silent, Granted, GrantOut, GrantWire, GrantAvail, GrantTag, Answers,
       NoUnread

(* Reading the handshakes keeps it: the knowledge each brings is current.  *)
LEMMA IInvRead == IInv /\ TypeOK' /\ ReadInputs => IInv'
<1> SUFFICES ASSUME IInv, TypeOK', ReadInputs PROVE IInv'
  OBVIOUS
<1> USE DEF NoUnread
<1>1. /\ phase = "read" /\ phase' = "power"
      /\ UNCHANGED <<power, reqHid, out, wire, avail, active>>
  BY DEF ReadInputs, chans
<1>2. Shape'
  BY <1>1 DEF IInv, Shape, Pure
<1>3. \A r \in Router : Priority(r)'
  BY <1>1 DEF Priority
<1>4. ASSUME NEW r \in Router, NEW p \in MeshPorts(r) PROVE LinkInv(r, p)'
  <2> DEFINE n == Nbr(r, p)
             q == Opp(p)
             m == avail[r][p]
             a == avail[n][q]
  <2>1. /\ p \in Port /\ n \in Router /\ q \in Port /\ q \in MeshPorts(n)
        /\ Nbr(n, q) = r /\ Opp(q) = p
    BY MeshLink
  <2>2. LinkInv(r, p) /\ LinkInv(n, q)
    BY <2>1 DEF IInv
  <2>3. Arriving(n, q) = m /\ Arriving(r, p) = a
    BY <2>1 DEF Arriving
  <2>4. /\ view'[n][q] = IF UpdatesView(n, q, m) THEN m.new ELSE view[n][q]
        /\ view'[r][p] = IF UpdatesView(r, p, a) THEN a.new ELSE view[r][p]
        /\ respHid'[n][q] = IF m # NoMsg /\ ~m.done THEN m.hid ELSE respHid[n][q]
        /\ q \in sent'[n] <=> q \in sent[n] /\ ~UpdatesView(n, q, m)
        /\ p \in sent'[r] <=> p \in sent[r] /\ ~UpdatesView(r, p, a)
        /\ p \in tags'[r] <=> p \in tags[r] \/ Consents(r, p, a)
    BY <2>1, <2>3 DEF ReadInputs
  <2>5. out[r][p] = NoMsg /\ out[n][q] = NoMsg /\ NoMsg.new = "none" /\ ~NoMsg.done
    BY <1>1, <2>1 DEF IInv, Shape, NoMsg
  <2>6. /\ Pure(m) /\ m \in Message
        /\ view[n][q] \in PowerState /\ view[r][p] \in PowerState
        /\ power[r] \in PowerState /\ power[n] \in PowerState
    BY <2>1 DEF IInv, Shape, TypeOK
  <2>7. Told(r, p)'
    BY <1>1, <2>2, <2>4, <2>5, <2>6 DEF LinkInv, Told, OffIsFinal, UpdatesView, PowerState,
                                        Message
  <2>8. OffIsFinal(r, p)'
    BY <1>1, <2>2, <2>4, <2>6 DEF LinkInv, OffIsFinal, UpdatesView, PowerState
  <2>9. Hids(r, p)'
    BY <1>1, <2>2, <2>4, <2>5, <2>6 DEF LinkInv, Hids, HidBound, Pure
  <2>10. Granted(r, p)' => Granted(r, p)
    BY <1>1, <2>1, <2>4 DEF Granted, GrantOut, GrantWire, GrantAvail, GrantTag, Answers,
                            Consents
  <2>11. Consent(r, p)'
    BY <1>1, <2>2, <2>4, <2>10 DEF LinkInv, Consent, UpdatesView
  <2>12. Order(r, p)'
    BY <1>1, <2>2, <2>4, <2>5 DEF LinkInv, Order, GrantOut, GrantWire, GrantAvail, GrantTag,
                             Answers, Consents
  <2>13. OffAlone(r, p)'
    BY <1>1, <2>2, <2>4, <2>6 DEF LinkInv, OffAlone, UpdatesView, PowerState
  <2>14. Silent(r, p)'
    BY <1>1, <2>2, <2>4 DEF LinkInv, Silent
  <2> QED
    BY <2>7, <2>8, <2>9, <2>11, <2>12, <2>13, <2>14 DEF LinkInv
<1> QED
  BY <1>2, <1>3, <1>4 DEF IInv, MeshPorts

(* The core of the argument: in PowerStateEvaluate, a router that goes off *)
(* has the consent of neighbours that are on and stay on.                  *)
LEMMA NeighborStaysOn ==
  ASSUME IInv, phase = "power", NEW r \in Router, NEW p \in MeshPorts(r),
         \/ power[r] = "off"
         \/ power[r] = "draining" /\ Granted(r, p) /\ power[Nbr(r, p)] = "on"
  PROVE  power[Nbr(r, p)] = "on" /\ NextPower(Nbr(r, p)) = "on"
<1> DEFINE n == Nbr(r, p)
           q == Opp(p)
<1>1. /\ p \in Port /\ n \in Router /\ q \in Port /\ q \in MeshPorts(n)
      /\ Nbr(n, q) = r /\ Opp(q) = p
  BY MeshLink
<1>2. LinkInv(r, p)
  BY DEF IInv
<1>3. power[n] = "on"
  BY <1>2 DEF LinkInv, OffAlone
<1>4. view[n][q] \in {"draining", "off"}
  BY <1>1, <1>2 DEF LinkInv, OffAlone, Consent, Told
<1>5. ~StartsDraining(n)
  BY <1>1, <1>4 DEF StartsDraining, NeighborDraining, NeighborOff
<1> QED
  BY <1>1, <1>3, <1>5, PowerStep DEF PowerState

(* A router that powers off holds the answers of all its neighbours, which  *)
(* are on and stay on in that cycle.                                       *)
LEMMA PowersOffAlone ==
  ASSUME IInv, phase = "power", NEW r \in Router, PowersOff(r), NEW p \in MeshPorts(r)
  PROVE  /\ GrantTag(r, p)
         /\ power[Nbr(r, p)] = "on"
         /\ NextPower(Nbr(r, p)) = "on"
<1> DEFINE n == Nbr(r, p)
           q == Opp(p)
<1>1. /\ p \in Port /\ n \in Router /\ q \in Port /\ q \in MeshPorts(n)
      /\ Nbr(n, q) = r /\ Opp(q) = p
      /\ q \in {West, North} <=> p \notin {West, North}
    BY MeshLink
<1>2. LinkInv(r, p) /\ LinkInv(n, q)
  BY <1>1 DEF IInv
<1>3. GrantTag(r, p)
  BY <1>1 DEF PowersOff, Drained, GrantTag
<1>4. power[n] \in PowerState /\ power[n] # "off"
  BY <1>1, <1>2, <1>3 DEF LinkInv, Consent, Granted, IInv, TypeOK
<1>5. power[n] # "draining"
  <2> SUFFICES ASSUME power[n] = "draining" PROVE FALSE
    OBVIOUS
  <2>1. p \in {West, North}
    BY <1>1, <1>2, <1>3 DEF LinkInv, Consent, Granted
  <2>2. view[r][p] = "draining"
    BY <1>1, <1>2, <1>3 DEF LinkInv, Order, Told
  <2> QED
    BY <2>1, <2>2 DEF PowersOff, Yields
<1>6. power[n] = "on"
  BY <1>4, <1>5 DEF PowerState
<1> QED
  BY <1>3, <1>6, NeighborStaysOn DEF Granted, GrantTag

(* The state machine keeps it: who starts a drain has just read that no    *)
(* neighbour is off, and of two that drain at once one yields.             *)
LEMMA IInvPower == IInv /\ TypeOK' /\ PowerStateEvaluate => IInv'
<1> SUFFICES ASSUME IInv, TypeOK', PowerStateEvaluate PROVE IInv'
  OBVIOUS
<1> USE DEF NoUnread
<1>1. /\ phase = "power" /\ phase' = "eval"
      /\ UNCHANGED <<view, sent, respHid, wire, avail, active>>
  BY DEF PowerStateEvaluate, packets
<1>2. NoMsg.new = "none" /\ ~NoMsg.done
  BY DEF NoMsg
<1>3. ASSUME NEW r \in Router
      PROVE  /\ power'[r] = NextPower(r)
             /\ power[r] \in PowerState /\ power'[r] \in PowerState
             /\ power'[r] = "draining" /\ power[r] # "draining" =>
                  StartsDraining(r) /\ tags'[r] = BoundaryPorts(r)
             /\ power'[r] = "draining" /\ power[r] = "draining" => tags'[r] = tags[r]
  <2>1. power'[r] = NextPower(r)
    BY DEF PowerStateEvaluate
  <2>2. power[r] \in PowerState
    BY DEF IInv, TypeOK
  <2>3. StartsDraining(r) => power[r] = "on"
    BY DEF StartsDraining
  <2>4. tags'[r] = IF StartsDraining(r) THEN BoundaryPorts(r)
                   ELSE IF power[r] = "draining" /\ NextPower(r) = "draining"
                        THEN tags[r] ELSE {}
    BY <2>3 DEF PowerStateEvaluate
  <2> QED
    BY <2>1, <2>2, <2>3, <2>4, PowerStep DEF PowerState
<1>4. ASSUME NEW r \in Router, NEW p \in Port
      PROVE  /\ out[r][p] = NoMsg
             /\ p \in AnnouncesOn(r) =>
                  /\ out'[r][p].new = power'[r] /\ out'[r][p].new # "none"
                  /\ out'[r][p].hid = reqHid'[r][p]
                  /\ reqHid'[r][p] = reqHid[r][p] + 1
             /\ p \notin AnnouncesOn(r) =>
                  /\ out'[r][p] = NoMsg /\ out'[r][p].new = "none"
                  /\ reqHid'[r][p] = reqHid[r][p]
             /\ ~out'[r][p].done
             /\ reqHid[r][p] \in Nat
  <2>1. out[r][p] = NoMsg /\ reqHid[r][p] \in Nat
    BY <1>1 DEF IInv, Shape, TypeOK
  <2>2. CASE p \in AnnouncesOn(r)
    <3>1. /\ out'[r][p] = [new |-> NextPower(r), done |-> FALSE, hid |-> reqHid[r][p] + 1]
          /\ reqHid'[r][p] = reqHid[r][p] + 1
      BY <2>2 DEF PowerStateEvaluate
    <3>2. /\ out'[r][p].new = NextPower(r) /\ out'[r][p].hid = reqHid[r][p] + 1
          /\ out'[r][p].done = FALSE
      BY <3>1
    <3> QED
      BY <1>3, <2>1, <2>2, <3>1, <3>2 DEF PowerState
  <2>3. CASE p \notin AnnouncesOn(r)
    BY <1>2, <2>1, <2>3 DEF PowerStateEvaluate
  <2> QED
    BY <2>2, <2>3
<1>5. Shape'
  <2>1. \A r \in Router : \A p \in Port : Pure(out'[r][p])
    BY <1>3, <1>4 DEF Pure, PowerState
  <2> QED
    BY <1>1, <2>1 DEF IInv, Shape, Pure
<1>6. ASSUME NEW r \in Router PROVE Priority(r)'
  <2>1. CASE power[r] = "draining"
    <3>1. power'[r] = "draining" => ~Defers(r) /\ ~Cancels(r)
      BY <1>3, <2>1, PowerStep DEF PowersOff, PowerState
    <3> QED
      BY <1>1, <2>1, <3>1 DEF Priority, Defers, Cancels, Yields, MeshPorts
  <2>2. CASE power[r] # "draining"
    BY <1>1, <1>3, <2>2 DEF Priority, StartsDraining, NeighborDraining, MeshPorts
  <2> QED
    BY <2>1, <2>2
<1>7. ASSUME NEW r \in Router, NEW p \in MeshPorts(r) PROVE LinkInv(r, p)'
  <2> DEFINE n == Nbr(r, p)
             q == Opp(p)
  <2>1. /\ p \in Port /\ n \in Router /\ q \in Port /\ q \in MeshPorts(n)
        /\ Nbr(n, q) = r /\ Opp(q) = p
        /\ q \in {West, North} <=> p \notin {West, North}
    BY MeshLink
  <2>2. LinkInv(r, p) /\ LinkInv(n, q)
    BY <2>1 DEF IInv
  <2>3. /\ power'[r] = power[r] => p \notin AnnouncesOn(r)
        /\ power'[r] # power[r] => p \in AnnouncesOn(r)
        /\ power'[n] = power[n] => q \notin AnnouncesOn(n)
        /\ power'[n] # power[n] => q \in AnnouncesOn(n)
        /\ power[r] = "off" => power'[r] = "off"
    BY <1>3, <2>1, PowerStep
  <2>4. respHid[n][q] \in Nat /\ wire[n][q].hid \in Nat /\ avail[n][q].hid \in Nat
        /\ wire[r][p].hid \in Nat /\ avail[r][p].hid \in Nat
    BY <2>1 DEF IInv, TypeOK, Message
  <2>5. Told(r, p)'
    BY <1>1, <1>2, <1>3, <1>4, <2>1, <2>2, <2>3 DEF LinkInv, Told, PowerState
  <2>6. OffIsFinal(r, p)'
    BY <1>1, <1>2, <1>4, <2>1, <2>2, <2>3 DEF LinkInv, OffIsFinal
  <2>7. Hids(r, p)'
    <3>1. CASE power'[r] = power[r]
      BY <1>1, <1>2, <1>4, <2>1, <2>2, <2>3, <2>4, <3>1 DEF LinkInv, Hids, HidBound
    <3>2. CASE power'[r] # power[r]
      BY <1>1, <1>2, <1>4, <2>1, <2>2, <2>3, <2>4, <3>2 DEF LinkInv, Hids, HidBound
    <3> QED
      BY <3>1, <3>2
  <2>8. Granted(r, p)' => power[r] = "draining" /\ power'[r] = "draining" /\ Granted(r, p)
    <3>1. Granted(r, p)' => power'[r] = "draining"
      BY DEF Granted, GrantOut, GrantWire, GrantAvail, GrantTag, Answers
    <3>2. ASSUME power'[r] = "draining", power[r] # "draining" PROVE ~Granted(r, p)'
      <4>1. ~GrantTag(r, p)'
        BY <1>3, <2>1, <3>2 DEF GrantTag, BoundaryPorts, MeshPorts
      <4>2. ~GrantWire(r, p)'
        BY <1>1, <1>4, <2>1, <2>2, <2>3, <2>4, <3>2 DEF GrantWire, Answers, LinkInv, Hids
      <4> QED
        BY <1>1, <1>4, <2>1, <4>1, <4>2 DEF Granted, GrantOut, GrantAvail, Answers
    <3>3. ASSUME power'[r] = "draining", power[r] = "draining"
          PROVE  Granted(r, p)' => Granted(r, p)
      BY <1>1, <1>3, <1>4, <2>1, <2>3, <3>3 DEF Granted, GrantOut, GrantWire, GrantAvail,
                                                GrantTag, Answers
    <3> QED
      BY <3>1, <3>2, <3>3
  <2>9. Granted(r, p)' => view[n][q] = "draining" /\ ~StartsDraining(n)
    BY <2>1, <2>2, <2>8 DEF LinkInv, Consent, Told, StartsDraining, NeighborDraining
  <2>10. Consent(r, p)'
    <3> SUFFICES ASSUME Granted(r, p)'
                 PROVE  /\ NoUnread(r, p)'
                        /\ q \in sent'[n]
                        /\ power'[n] # "off"
                        /\ q \in {West, North} => power'[n] = "on"
      BY DEF Consent
    <3>1. NoUnread(r, p)' /\ q \in sent'[n]
      BY <1>1, <1>2, <1>4, <2>1, <2>2, <2>3, <2>8 DEF LinkInv, Consent
    <3>2. power'[n] # "off"
      <4>1. ~PowersOff(n)
        BY <1>1, <2>1, <2>8, PowersOffAlone
      <4> QED
        BY <1>3, <2>1, <2>2, <2>8, <4>1, PowerStep DEF LinkInv, Consent, PowerState
    <3>3. q \in {West, North} => power'[n] = "on"
      BY <1>3, <2>1, <2>2, <2>8, <2>9, PowerStep DEF LinkInv, Consent
    <3> QED
      BY <3>1, <3>2, <3>3
  <2>11. Order(r, p)'
    <3> SUFFICES ASSUME power'[n] = "draining", Granted(r, p)' 
                 PROVE  /\ GrantTag(r, p)' => NoUnread(n, q)'
                        /\ GrantWire(r, p)' => out'[n][q].new = "none"
      BY <1>1 DEF Order, Granted, GrantAvail
    <3>1. power[n] = "draining" /\ out'[n][q] = NoMsg
      BY <1>3, <1>4, <2>1, <2>3, <2>9
    <3>2. GrantTag(r, p)' => GrantTag(r, p)
      BY <1>3, <2>8 DEF GrantTag
    <3> QED
      BY <1>1, <1>2, <2>1, <2>2, <3>1, <3>2 DEF LinkInv, Order
  <2>12. OffAlone(r, p)'
    <3>1. CASE power[r] = "off"
      BY <1>1, <1>2, <1>3, <1>4, <2>1, <2>2, <2>3, <3>1, NeighborStaysOn DEF LinkInv, OffAlone
    <3>2. ASSUME power[r] # "off", power'[r] = "off" PROVE OffAlone(r, p)'
      <4>1. PowersOff(r)
        BY <1>3, <3>2, PowerStep DEF PowerState
      <4>2. GrantTag(r, p) /\ power'[n] = "on"
        BY <1>1, <1>3, <2>1, <4>1, PowersOffAlone
      <4>3. /\ NoUnread(r, p)
            /\ view[n][q] = "draining"
        BY <2>2, <4>2 DEF LinkInv, Consent, Granted, Told, GrantTag
      <4> QED
        BY <1>1, <1>4, <2>1, <2>3, <3>2, <4>2, <4>3 DEF OffAlone
    <3> QED
      BY <3>1, <3>2 DEF OffAlone
  <2>13. Silent(r, p)'
    BY <1>1, <2>2 DEF LinkInv, Silent
  <2> QED
    BY <2>5, <2>6, <2>7, <2>10, <2>11, <2>12, <2>13 DEF LinkInv
<1> QED
  BY <1>5, <1>6, <1>7 DEF IInv, MeshPorts

(* Answers and traffic keep it: who answers is on and has seen the drain.  *)
LEMMA IInvEvaluate == IInv /\ TypeOK' /\ Evaluate => IInv'
<1> SUFFICES ASSUME IInv, TypeOK', Evaluate PROVE IInv'
  OBVIOUS
<1> USE DEF NoUnread
<1>1. /\ phase = "eval" /\ phase' = "write"
      /\ UNCHANGED <<power, view, tags, reqHid, respHid, wire, avail>>
  BY DEF Evaluate
<1>2. PICK act \in SUBSET Traffic :
        /\ \A l \in act \ active : MayActivate(l)
        /\ active' = act
        /\ out' = [r \in Router |-> [p \in Port |->
                    IF Responds(r, p, act)
                    THEN [new |-> out[r][p].new, done |-> TRUE, hid |-> respHid[r][p]]
                    ELSE out[r][p]]]
        /\ sent' = [r \in Router |-> sent[r] \cup {p \in Port : Responds(r, p, act)}]
  BY DEF Evaluate
<1>3. ASSUME NEW r \in Router, NEW p \in Port
      PROVE  /\ out'[r][p].new = out[r][p].new
             /\ Responds(r, p, act) => out'[r][p].done /\ out'[r][p].hid = respHid[r][p]
             /\ ~Responds(r, p, act) => out'[r][p] = out[r][p]
             /\ p \in sent'[r] <=> p \in sent[r] \/ Responds(r, p, act)
  <2>1. CASE Responds(r, p, act)
    <3>1. out'[r][p] = [new |-> out[r][p].new, done |-> TRUE, hid |-> respHid[r][p]]
      BY <1>2, <2>1
    <3>2. out'[r][p].new = out[r][p].new /\ out'[r][p].done = TRUE
          /\ out'[r][p].hid = respHid[r][p]
      BY <3>1
    <3> QED
      BY <1>2, <2>1, <3>2
  <2>2. CASE ~Responds(r, p, act)
    BY <1>2, <2>2
  <2> QED
    BY <2>1, <2>2
<1>4. Shape'
  <2>1. \A r \in Router : \A p \in Port : Pure(out'[r][p])
    BY <1>3 DEF IInv, Shape, Pure
  <2> QED
    BY <1>1, <2>1 DEF IInv, Shape, Pure
<1>5. \A r \in Router : Priority(r)'
  BY <1>1 DEF IInv, Priority
<1>6. ASSUME NEW r \in Router, NEW p \in MeshPorts(r) PROVE LinkInv(r, p)'
  <2> DEFINE n == Nbr(r, p)
             q == Opp(p)
  <2>1. /\ p \in Port /\ n \in Router /\ q \in Port /\ q \in MeshPorts(n)
        /\ Nbr(n, q) = r /\ Opp(q) = p
    BY MeshLink
  <2>2. LinkInv(r, p) /\ Priority(n)
    BY <2>1 DEF IInv
  <2>3. respHid[n][q] \in Nat /\ reqHid[r][p] \in Nat /\ power[n] \in PowerState
    BY <2>1 DEF IInv, TypeOK
  <2>4. Told(r, p)' /\ OffIsFinal(r, p)' /\ OffAlone(r, p)'
    BY <1>1, <1>3, <2>1, <2>2 DEF LinkInv, Told, OffIsFinal, OffAlone
  <2>5. Hids(r, p)'
    BY <1>1, <1>3, <2>1, <2>2 DEF LinkInv, Hids, HidBound
  <2>6. Consent(r, p)'
    <3>1. ASSUME Responds(n, q, act), GrantOut(r, p)' PROVE Consent(r, p)'
      <4>1. power[r] = "draining" /\ respHid[n][q] = reqHid[r][p]
        BY <1>1, <1>3, <2>1, <3>1 DEF GrantOut, Answers
      <4>2. NoUnread(r, p)
        BY <2>2, <2>3, <4>1 DEF LinkInv, Hids
      <4>3. q \in {West, North} => power[n] # "draining"
        BY <1>1, <2>1, <2>2, <3>1 DEF Priority, Responds
      <4>4. power[n] # "off"
        BY <3>1 DEF Responds
      <4> QED
        BY <1>1, <1>3, <2>1, <2>3, <3>1, <4>2, <4>3, <4>4 DEF Consent, PowerState
    <3>2. Granted(r, p)' => Granted(r, p) \/ (Responds(n, q, act) /\ GrantOut(r, p)')
      BY <1>1, <1>3, <2>1 DEF Granted, GrantOut, GrantWire, GrantAvail, GrantTag, Answers
    <3>3. Granted(r, p) => Consent(r, p)'
      BY <1>1, <1>3, <2>1, <2>2 DEF LinkInv, Consent
    <3> QED
      BY <3>1, <3>2, <3>3 DEF Consent
  <2>7. Order(r, p)'
    BY <1>1, <1>3, <2>1, <2>2 DEF LinkInv, Order, GrantTag, GrantWire, GrantAvail, Answers
  <2>8. Silent(r, p)'
    BY <1>1, <1>2, <1>3, <2>1, <2>2 DEF LinkInv, Silent, Responds, MayActivate
  <2> QED
    BY <2>4, <2>5, <2>6, <2>7, <2>8 DEF LinkInv
<1> QED
  BY <1>4, <1>5, <1>6 DEF IInv, MeshPorts

(* Sending the queued handshakes moves knowledge and loses none.           *)
LEMMA IInvWrite == IInv /\ TypeOK' /\ WriteOutputs => IInv'
<1> SUFFICES ASSUME IInv, TypeOK', WriteOutputs PROVE IInv'
  OBVIOUS
<1> USE DEF NoUnread
<1>1. /\ phase = "write" /\ phase' = "read" /\ wire' = out /\ avail' = wire
      /\ UNCHANGED <<power, view, tags, sent, reqHid, respHid, active>>
  BY DEF WriteOutputs, ctrl
<1>2. \A r \in Router : \A p \in Port :
        out'[r][p] = NoMsg /\ out'[r][p].new = "none" /\ ~out'[r][p].done
  BY DEF WriteOutputs, NoMsg
<1>3. Shape'
  BY <1>1, <1>2 DEF IInv, Shape, Pure
<1>4. \A r \in Router : Priority(r)'
  BY <1>1 DEF IInv, Priority
<1>5. ASSUME NEW r \in Router, NEW p \in MeshPorts(r) PROVE LinkInv(r, p)'
  <2> DEFINE n == Nbr(r, p)
             q == Opp(p)
  <2>1. /\ p \in Port /\ n \in Router /\ q \in Port
    BY MeshLink
  <2>2. LinkInv(r, p)
    BY DEF IInv
  <2>3. Told(r, p)' /\ OffIsFinal(r, p)' /\ OffAlone(r, p)' /\ Silent(r, p)'
    BY <1>1, <1>2, <2>1, <2>2 DEF LinkInv, Told, OffIsFinal, OffAlone, Silent
  <2>4. Hids(r, p)'
    BY <1>1, <1>2, <2>1, <2>2 DEF LinkInv, Hids, HidBound
  <2>5. Consent(r, p)'
    BY <1>1, <1>2, <2>1, <2>2 DEF LinkInv, Consent, Granted, GrantOut, GrantWire, GrantAvail,
                                  GrantTag, Answers
  <2>6. Order(r, p)'
    BY <1>1, <1>2, <2>1, <2>2 DEF LinkInv, Order, GrantOut, GrantWire, GrantAvail, GrantTag,
                                  Answers
  <2> QED
    BY <2>3, <2>4, <2>5, <2>6 DEF LinkInv
<1> QED
  BY <1>3, <1>4, <1>5 DEF IInv, MeshPorts

(* So every step keeps it.                                                 *)
LEMMA IInvStep == IInv /\ [Next]_vars => IInv'
<1> SUFFICES ASSUME IInv, [Next]_vars PROVE IInv'
  OBVIOUS
<1>1. TypeOK'
  BY TypeOKStep DEF IInv
<1>2. CASE ReadInputs
  BY <1>1, <1>2, IInvRead
<1>3. CASE PowerStateEvaluate
  BY <1>1, <1>3, IInvPower
<1>4. CASE Evaluate
  BY <1>1, <1>4, IInvEvaluate
<1>5. CASE WriteOutputs
  BY <1>1, <1>5, IInvWrite
<1>6. CASE UNCHANGED vars
  BY <1>1, <1>6, IInvUnchanged DEF vars, ctrl, chans, packets, Regular
<1> QED
  BY <1>2, <1>3, <1>4, <1>5, <1>6 DEF Next

-----------------------------------------------------------------------------
(* The theorems.                                                           *)

(* Two routers next to each other are never both off, although each of     *)
(* them decides from a view of the other that is two cycles old and both   *)
(* may start to drain in the same cycle (the tie-break of                  *)
(* RFLOVRouter::PowerStateEvaluate).                                       *)
THEOREM NeverAdjacentOff == Spec => []NoAdjacentOff
<1>1. IInv => NoAdjacentOff
  BY DEF IInv, LinkInv, OffAlone, NoAdjacentOff
<1> QED
  BY <1>1, InitIInv, IInvStep, PTL DEF Spec

(* Every step obeys OffByConsent.                                          *)
LEMMA ConsentStep ==
  IInv /\ [Next]_vars =>
    [\A r \in Router : power'[r] = "off" /\ power[r] # "off" =>
       \A p \in MeshPorts(r) :
         LET n == Nbr(r, p) IN
         /\ power'[n] = "on"
         /\ view[n][Opp(p)] = "draining"
         /\ Opp(p) \in sent[n]
         /\ <<n, Opp(p)>> \notin active]_vars
<1> SUFFICES ASSUME IInv, [Next]_vars,
                    NEW r \in Router, power'[r] = "off", power[r] # "off",
                    NEW p \in MeshPorts(r)
             PROVE  /\ power'[Nbr(r, p)] = "on"
                    /\ view[Nbr(r, p)][Opp(p)] = "draining"
                    /\ Opp(p) \in sent[Nbr(r, p)]
                    /\ <<Nbr(r, p), Opp(p)>> \notin active
  OBVIOUS
<1>1. PowerStateEvaluate
  BY DEF Next, ReadInputs, Evaluate, WriteOutputs, vars, ctrl
<1>2. phase = "power" /\ power'[r] = NextPower(r)
  BY <1>1 DEF PowerStateEvaluate
<1>3. PowersOff(r)
  BY <1>2, PowerStep DEF IInv, TypeOK, PowerState
<1>4. /\ GrantTag(r, p) /\ NextPower(Nbr(r, p)) = "on"
      /\ Nbr(r, p) \in Router /\ Opp(p) \in MeshPorts(Nbr(r, p))
      /\ Nbr(Nbr(r, p), Opp(p)) = r /\ Opp(Opp(p)) = p
  BY <1>2, <1>3, PowersOffAlone, MeshLink
<1>5. LinkInv(r, p) /\ LinkInv(Nbr(r, p), Opp(p))
  BY <1>4 DEF IInv
<1>6. NoUnread(r, p) /\ Opp(p) \in sent[Nbr(r, p)]
  BY <1>4, <1>5 DEF LinkInv, Consent, Granted
<1>7. view[Nbr(r, p)][Opp(p)] = "draining"
  BY <1>4, <1>5, <1>6 DEF LinkInv, Told, GrantTag
<1>8. power'[Nbr(r, p)] = "on"
  BY <1>1, <1>4 DEF PowerStateEvaluate
<1> QED
  BY <1>5, <1>6, <1>7, <1>8 DEF LinkInv, Silent

(* A router goes off only with the consent of all its neighbours to this   *)
(* very drain: the identifiers of the handshakes keep the answer to an     *)
(* abandoned drain from being taken for one to the next (_req_hids and     *)
(* _resp_hids in _HandshakeEvaluate and _HandshakeResponse).               *)
THEOREM OffOnlyByConsent == Spec => OffByConsent
<1> QED
  BY InitIInv, IInvStep, ConsentStep, PTL DEF Spec, OffByConsent

(* A router is wrong about a neighbour only while an announcement of that  *)
(* neighbour is on its way: _HandshakeEvaluate never overwrites the last   *)
(* state announced by PowerStateEvaluate, nor drops one that matters.      *)
THEOREM ViewsAreCurrent == Spec => []ViewIsCurrent
<1>1. IInv => ViewIsCurrent
  <2> SUFFICES ASSUME IInv, phase = "read", NEW r \in Router, NEW p \in MeshPorts(r),
                      wire[Nbr(r, p)][Opp(p)].new = "none", Arriving(r, p).new = "none"
               PROVE  view[r][p] = power[Nbr(r, p)]
    BY DEF ViewIsCurrent
  <2> DEFINE n == Nbr(r, p)
             q == Opp(p)
  <2>1. n \in Router /\ q \in MeshPorts(n) /\ q \in Port /\ Nbr(n, q) = r /\ Opp(q) = p
    BY MeshLink
  <2>2. out[n][q] = NoMsg
    BY <2>1 DEF IInv, Shape
  <2>3. NoUnread(n, q)
    BY <2>2 DEF NoUnread, NoMsg, Arriving
  <2>4. Told(n, q)
    BY <2>1 DEF IInv, LinkInv
  <2> QED
    BY <2>1, <2>3, <2>4 DEF Told
<1> QED
  BY <1>1, InitIInv, IInvStep, PTL DEF Spec

(* The drain timer that the idle cycles of IdleDetected and the cycles of  *)
(* PowerStateEvaluate advance together never gets past drain_threshold by  *)
(* more than the idle cycle counted last, which ends the drain.            *)
THEOREM DrainsAreBounded == Spec => []DrainIsBounded
<1> DEFINE Bounded == TypeOK /\ DrainIsBounded
<1>1. Init => Bounded
  BY InitTypeOK, RflovAssumption DEF Init, DrainIsBounded
<1>2. Bounded /\ [Next]_vars => Bounded'
  <2> SUFFICES ASSUME Bounded, [Next]_vars PROVE DrainIsBounded'
    BY TypeOKStep
  <2>1. CASE PowerStateEvaluate
    <3>0. phase' = "eval"
      BY <2>1 DEF PowerStateEvaluate
    <3> SUFFICES ASSUME NEW r \in Router PROVE timer'[r] <= DrainThreshold
      BY <3>0, RflovAssumption DEF DrainIsBounded
    <3>1. timer'[r] = IF power[r] = "draining" /\ NextPower(r) = "draining"
                      THEN timer[r] + 1 ELSE 0
      BY <2>1 DEF PowerStateEvaluate
    <3>2. power[r] = "draining" /\ NextPower(r) = "draining" =>
            ~GivesUp(r) /\ ~Cancels(r) /\ ~Defers(r) /\ ~PowersOff(r)
      BY PowerStep DEF TypeOK
    <3>3. power[r] = "draining" /\ NextPower(r) = "draining" =>
            ~(timer[r] + 1 > DrainThreshold)
      BY <3>2 DEF GivesUp, Cancels, Defers, PowersOff, DrainOver
    <3> QED
      BY <3>1, <3>3, RflovAssumption DEF TypeOK
  <2>2. CASE ReadInputs
    <3>1. PICK busy \in SUBSET MayBeBusy : NodeCycle(busy)
      BY <2>2 DEF ReadInputs
    <3>2. \A r \in Router : timer[r] \in Nat /\ timer[r] <= DrainThreshold
      BY <2>2, RflovAssumption DEF ReadInputs, DrainIsBounded, TypeOK
    <3>3. \A r \in Router : timer'[r] <= DrainThreshold + 1
      BY <3>1, <3>2, RflovAssumption DEF NodeCycle, IdleDetected
    <3> QED
      BY <2>2, <3>3 DEF ReadInputs, DrainIsBounded
  <2>3. CASE Evaluate \/ WriteOutputs
    BY <2>3 DEF Evaluate, WriteOutputs, ctrl, DrainIsBounded
  <2>4. CASE UNCHANGED vars
    BY <2>4 DEF vars, ctrl, DrainIsBounded
  <2> QED
    BY <2>1, <2>2, <2>3, <2>4 DEF Next
<1> QED
  BY <1>1, <1>2, PTL DEF Spec

-----------------------------------------------------------------------------
(* The restricted protocol implements PowerGating.                         *)

(* The mesh of the abstract specification is this one.                     *)
LEMMA SameMesh ==
  /\ Abstract!Router = Router
  /\ \A r : Abstract!MeshPorts(r) = MeshPorts(r)
  /\ \A r, p : Abstract!Nbr(r, p) = Nbr(r, p)
  /\ \A p : Abstract!Opp(p) = Opp(p)
<1>1. Abstract!Router = Router
  BY DEF Abstract!Router, Router, Abstract!Coord, Coord
<1>2. \A r : Abstract!MeshPorts(r) = MeshPorts(r)
  BY DEF Abstract!MeshPorts, MeshPorts, Abstract!Port, Port, Abstract!Boundary, Boundary
<1>3. \A r, p : Abstract!Nbr(r, p) = Nbr(r, p)
  BY DEF Abstract!Nbr, Nbr, Abstract!Succ, Succ, Abstract!Pred, Pred
<1>4. \A p : Abstract!Opp(p) = Opp(p)
  BY DEF Abstract!Opp, Opp
<1> QED
  BY <1>1, <1>2, <1>3, <1>4

(* A neighbour that consented is not off and sends nothing.                *)
LEMMA GrantedQuiet ==
  IInv => \A r \in Router : \A p \in MeshPorts(r) :
            Granted(r, p) => power[Nbr(r, p)] # "off" /\ <<Nbr(r, p), Opp(p)>> \notin active
<1> SUFFICES ASSUME IInv, NEW r \in Router, NEW p \in MeshPorts(r), Granted(r, p)
             PROVE  power[Nbr(r, p)] # "off" /\ <<Nbr(r, p), Opp(p)>> \notin active
  OBVIOUS
<1>1. /\ Nbr(r, p) \in Router /\ Opp(p) \in MeshPorts(Nbr(r, p))
      /\ Nbr(Nbr(r, p), Opp(p)) = r /\ Opp(Opp(p)) = p
  BY MeshLink
<1>2. LinkInv(r, p) /\ LinkInv(Nbr(r, p), Opp(p))
  BY <1>1 DEF IInv
<1>3. power[r] = "draining"
  BY DEF Granted, GrantOut, GrantWire, GrantAvail, GrantTag, Answers
<1>4. NoUnread(r, p) /\ Opp(p) \in sent[Nbr(r, p)] /\ power[Nbr(r, p)] # "off"
  BY <1>2 DEF LinkInv, Consent
<1>5. view[Nbr(r, p)][Opp(p)] = "draining"
  BY <1>2, <1>3, <1>4 DEF LinkInv, Told
<1> QED
  BY <1>2, <1>4, <1>5 DEF LinkInv, Silent

(* So nobody sends to a router it consented to, in particular not newly.   *)
LEMMA GrantedStaysQuiet ==
  IInv' => \A r \in Router : \A p \in MeshPorts(r) :
             Granted(r, p)' => power'[Nbr(r, p)] # "off" /\ <<Nbr(r, p), Opp(p)>> \notin active'
<1>1. (IInv => \A r \in Router : \A p \in MeshPorts(r) :
                 Granted(r, p) => power[Nbr(r, p)] # "off" /\ <<Nbr(r, p), Opp(p)>> \notin active)'
  BY GrantedQuiet, PTL
<1> QED
  BY <1>1

LEMMA AbstractSends == IInv' => Abstract!Sends
<1> SUFFICES ASSUME IInv', NEW l \in active', Opp(l[2]) \in Consented'[Nbr(l[1], l[2])]
             PROVE  FALSE
  BY SameMesh DEF Abstract!Sends
<1>1. active' \subseteq Traffic
  BY DEF IInv, TypeOK
<1>2. l \in Router \X Port /\ ~Boundary(l[1], l[2])
  BY <1>1, RflovAssumption
<1>3. l[1] \in Router /\ l[2] \in MeshPorts(l[1]) /\ l = <<l[1], l[2]>>
  BY <1>2 DEF MeshPorts
<1>4. /\ Nbr(l[1], l[2]) \in Router /\ Opp(l[2]) \in MeshPorts(Nbr(l[1], l[2]))
      /\ Nbr(Nbr(l[1], l[2]), Opp(l[2])) = l[1] /\ Opp(Opp(l[2])) = l[2]
  BY <1>3, MeshLink
<1>5. Granted(Nbr(l[1], l[2]), Opp(l[2]))'
  BY <1>4 DEF Consented
<1> QED
  BY <1>3, <1>4, <1>5, GrantedStaysQuiet

(* Handshakes that move on leave consent as it is.                         *)
LEMMA ConsentMoves ==
  ASSUME IInv, ReadInputs \/ WriteOutputs, NEW r \in Router, NEW p \in MeshPorts(r)
  PROVE  Granted(r, p)' <=> Granted(r, p)
<1>1. p \in Port /\ Nbr(r, p) \in Router /\ Opp(p) \in Port
  BY MeshLink
<1>2. CASE ReadInputs
  <2>1. /\ phase = "read" /\ phase' = "power"
        /\ UNCHANGED <<power, reqHid, out, wire, avail>>
    BY <1>2 DEF ReadInputs, chans
  <2>2. p \in tags'[r] <=> p \in tags[r] \/ Consents(r, p, Arriving(r, p))
    BY <1>1, <1>2 DEF ReadInputs
  <2> QED
    BY <2>1, <2>2 DEF Granted, GrantOut, GrantWire, GrantAvail, GrantTag, Answers, Consents,
                      Arriving
<1>3. CASE WriteOutputs
  <2>1. /\ phase = "write" /\ phase' = "read" /\ wire' = out /\ avail' = wire
        /\ UNCHANGED <<power, tags, reqHid>>
    BY <1>3 DEF WriteOutputs, ctrl
  <2>2. ~out'[Nbr(r, p)][Opp(p)].done
    BY <1>1, <1>3 DEF WriteOutputs, NoMsg
  <2> QED
    BY <2>1, <2>2 DEF Granted, GrantOut, GrantWire, GrantAvail, GrantTag, Answers
<1> QED
  BY <1>2, <1>3

(* An answer is consent, and no consent is withdrawn with it.              *)
LEMMA ConsentGrows ==
  ASSUME IInv, Evaluate, NEW r \in Router, NEW p \in MeshPorts(r), Granted(r, p)
  PROVE  Granted(r, p)'
<1> DEFINE n == Nbr(r, p)
           q == Opp(p)
<1>1. p \in Port /\ n \in Router /\ q \in Port
  BY MeshLink
<1>2. PICK act \in SUBSET Traffic :
        out' = [t \in Router |-> [u \in Port |->
                  IF Responds(t, u, act)
                  THEN [new |-> out[t][u].new, done |-> TRUE, hid |-> respHid[t][u]]
                  ELSE out[t][u]]]
  BY DEF Evaluate
<1>3. /\ phase = "eval" /\ phase' = "write"
      /\ UNCHANGED <<power, tags, reqHid, wire, avail>>
  BY DEF Evaluate
<1>4. CASE GrantOut(r, p)
  <2>1. q \in sent[n]
    BY <1>4 DEF IInv, LinkInv, Consent, Granted
  <2>2. ~Responds(n, q, act)
    BY <2>1 DEF Responds
  <2>3. out'[n][q] = out[n][q]
    BY <1>1, <1>2, <2>2
  <2> QED
    BY <1>3, <1>4, <2>3 DEF Granted, GrantOut, Answers
<1>5. CASE GrantWire(r, p) \/ GrantAvail(r, p) \/ GrantTag(r, p)
  BY <1>3, <1>5 DEF Granted, GrantWire, GrantAvail, GrantTag, Answers
<1> QED
  BY <1>4, <1>5 DEF Granted

(* While the state machines run, consent stays with a router that goes on  *)
(* draining, and a router that begins has none: answers to its earlier     *)
(* drains carry smaller identifiers.                                       *)
LEMMA ConsentOfDrain ==
  ASSUME IInv, PowerStateEvaluate, NEW r \in Router, NEW p \in MeshPorts(r)
  PROVE  Granted(r, p)' <=> /\ power'[r] = "draining" /\ power[r] = "draining"
                            /\ Granted(r, p)
<1> DEFINE n == Nbr(r, p)
           q == Opp(p)
<1>1. p \in Port /\ n \in Router /\ q \in Port
  BY MeshLink
<1>2. /\ phase = "power" /\ phase' = "eval" /\ UNCHANGED <<wire, avail>>
      /\ power'[r] = NextPower(r) /\ power[r] \in PowerState /\ reqHid[r][p] \in Nat
  BY <1>1 DEF PowerStateEvaluate, IInv, TypeOK
<1>3. ~out[n][q].done /\ ~out'[n][q].done
  BY <1>1, <1>2 DEF PowerStateEvaluate, IInv, Shape, NoMsg
<1>4. CASE power'[r] # "draining"
  BY <1>4 DEF Granted, GrantOut, GrantWire, GrantAvail, GrantTag, Answers
<1>5. CASE power'[r] = "draining" /\ power[r] = "draining"
  <2>1. AnnouncesOn(r) = {}
    BY <1>2, <1>5, PowerStep
  <2>2. reqHid'[r][p] = reqHid[r][p] /\ tags'[r] = tags[r]
    <3>1. ~StartsDraining(r)
      BY <1>5 DEF StartsDraining
    <3> QED
      BY <1>1, <1>2, <1>5, <2>1, <3>1 DEF PowerStateEvaluate
  <2> QED
    BY <1>2, <1>3, <1>5, <2>2 DEF Granted, GrantOut, GrantWire, GrantAvail, GrantTag, Answers
<1>6. CASE power'[r] = "draining" /\ power[r] # "draining"
  <2>1. StartsDraining(r) /\ p \in AnnouncesOn(r)
    BY <1>2, <1>6, PowerStep DEF PowerState
  <2>2. reqHid'[r][p] = reqHid[r][p] + 1 /\ tags'[r] = BoundaryPorts(r)
    <3>1. tags'[r] = BoundaryPorts(r)
      BY <1>6, <2>1 DEF PowerStateEvaluate
    <3>2. reqHid'[r][p] = IF p \in AnnouncesOn(r) THEN reqHid[r][p] + 1 ELSE reqHid[r][p]
      BY <1>1 DEF PowerStateEvaluate
    <3> QED
      BY <2>1, <3>1, <3>2
  <2>3. wire[n][q].done => wire[n][q].hid <= reqHid[r][p]
    BY DEF IInv, LinkInv, Hids
  <2>4. wire[n][q].done => wire[n][q].hid \in Nat
    BY <1>1 DEF IInv, TypeOK, Message
  <2>5. ~GrantWire(r, p)'
    BY <1>2, <2>2, <2>3, <2>4 DEF GrantWire, Answers
  <2>6. ~GrantTag(r, p)' /\ ~GrantAvail(r, p)' /\ ~GrantOut(r, p)'
    BY <1>2, <1>3, <2>2 DEF GrantTag, GrantAvail, GrantOut, Answers, MeshPorts, BoundaryPorts
  <2> QED
    BY <1>6, <2>5, <2>6 DEF Granted
<1> QED
  BY <1>4, <1>5, <1>6

LEMMA AbstractPower ==
  ASSUME IInv, IInv', PowerStateEvaluate, NEW r \in Router
  PROVE  \/ Abstract!Asks(r) \/ Abstract!Withdraws(r) \/ Abstract!IsAnswered(r)
         \/ Abstract!GoesOff(r) \/ Abstract!Stays(r)
<1>1. phase = "power" /\ power'[r] = NextPower(r) /\ power[r] \in PowerState
  BY DEF PowerStateEvaluate, IInv, TypeOK
<1>2. \A p \in MeshPorts(r) :
        Granted(r, p)' <=> power'[r] = "draining" /\ power[r] = "draining" /\ Granted(r, p)
  BY ConsentOfDrain
<1>3. power[r] # "draining" => Consented[r] = {}
  BY DEF Consented, Granted, GrantOut, GrantWire, GrantAvail, GrantTag, Answers
<1>4. power'[r] # "draining" \/ power[r] # "draining" => Consented'[r] = {}
  BY <1>2 DEF Consented
<1>5. CASE power[r] = "on"
  <2>1. power'[r] = "draining" => r \in Gateable
    BY <1>1, <1>5, PowerStep DEF StartsDraining
  <2>2. power'[r] \in {"on", "draining"}
    BY <1>1, <1>5, PowerStep
  <2> QED
    BY <1>3, <1>4, <1>5, <2>1, <2>2 DEF Abstract!Asks, Abstract!Stays
<1>6. CASE power[r] = "off"
  BY <1>1, <1>3, <1>4, <1>6, PowerStep DEF Abstract!Stays
<1>7. CASE power[r] = "draining" /\ power'[r] = "draining"
  <2>1. Consented'[r] = Consented[r]
    BY <1>2, <1>7 DEF Consented
  <2> QED
    BY <1>7, <2>1 DEF Abstract!Stays
<1>8. CASE power[r] = "draining" /\ power'[r] = "on"
  BY <1>4, <1>8 DEF Abstract!Withdraws
<1>9. CASE power[r] = "draining" /\ power'[r] = "off"
  <2>1. PowersOff(r)
    BY <1>1, <1>9, PowerStep
  <2>2. \A p \in MeshPorts(r) :
          GrantTag(r, p) /\ NextPower(Nbr(r, p)) = "on" /\ Nbr(r, p) \in Router
    BY <1>1, <2>1, PowersOffAlone, MeshLink
  <2>3. \A p \in MeshPorts(r) : power'[Nbr(r, p)] = "on"
    BY <2>2 DEF PowerStateEvaluate
  <2>4. Consented[r] = MeshPorts(r)
    BY <2>2 DEF Consented, Granted
  <2> QED
    BY <1>4, <1>9, <2>3, <2>4, SameMesh DEF Abstract!GoesOff
<1> QED
  BY <1>1, <1>5, <1>6, <1>7, <1>8, <1>9, PowerStep DEF PowerState

LEMMA AbstractAnswers ==
  ASSUME IInv, IInv', Evaluate, NEW r \in Router
  PROVE  Abstract!IsAnswered(r) \/ Abstract!Stays(r)
<1>1. power' = power
  BY DEF Evaluate
<1>2. CASE power[r] # "draining"
  <2>1. Consented[r] = {} /\ Consented'[r] = {}
    BY <1>1, <1>2 DEF Consented, Granted, GrantOut, GrantWire, GrantAvail, GrantTag, Answers
  <2> QED
    BY <1>1, <2>1 DEF Abstract!Stays
<1>3. CASE power[r] = "draining"
  <2>1. Consented[r] \subseteq Consented'[r] /\ Consented'[r] \subseteq MeshPorts(r)
    BY ConsentGrows DEF Consented
  <2>2. ASSUME NEW p \in Consented'[r]
        PROVE  power[Nbr(r, p)] # "off" /\ <<Nbr(r, p), Opp(p)>> \notin active'
    <3>1. p \in MeshPorts(r) /\ Granted(r, p)'
      BY <2>2 DEF Consented
    <3> QED
      BY <1>1, <3>1, GrantedStaysQuiet
  <2> QED
    BY <1>1, <1>3, <2>1, <2>2, SameMesh DEF Abstract!IsAnswered
<1> QED
  BY <1>2, <1>3

LEMMA AbstractStep == IInv /\ IInv' /\ [Next]_vars => [Abstract!Next]_<<power, Consented, active>>
<1> SUFFICES ASSUME IInv, IInv', [Next]_vars PROVE Abstract!Next \/ UNCHANGED <<power, Consented, active>>
  OBVIOUS
<1>1. CASE ReadInputs \/ WriteOutputs
  <2>1. UNCHANGED <<power, active>>
    BY <1>1 DEF ReadInputs, WriteOutputs, ctrl
  <2>2. Consented' = Consented
    BY <1>1, ConsentMoves DEF Consented
  <2> QED
    BY <2>1, <2>2
<1>2. CASE PowerStateEvaluate
  BY <1>2, AbstractPower, AbstractSends, SameMesh DEF Abstract!Next
<1>3. CASE Evaluate
  BY <1>3, AbstractAnswers, AbstractSends, SameMesh DEF Abstract!Next
<1>4. CASE UNCHANGED <<phase, power, tags, reqHid, out, wire, avail, active>>
  BY <1>4 DEF Consented, Granted, GrantOut, GrantWire, GrantAvail, GrantTag, Answers
<1> QED
  BY <1>1, <1>2, <1>3, <1>4 DEF Next, vars, ctrl, chans, packets

(* What the handshakes of RFLOVRouter add up to: an agreement between a    *)
(* router and its neighbours that is reached at once.                      *)
THEOREM RflovImplementsPowerGating == Spec => ImplementsPowerGating
<1>1. Init => Abstract!Init
  BY SameMesh DEF Init, Abstract!Init, Consented, Granted, GrantOut, GrantWire, GrantAvail, GrantTag,
         Answers
<1>2. Spec => Abstract!Spec
  BY <1>1, InitIInv, IInvStep, AbstractStep, PTL DEF Spec, Abstract!Spec, Abstract!gating
<1> QED
  BY <1>2 DEF ImplementsPowerGating

-----------------------------------------------------------------------------
(* What travels on the links around a router that goes off: its            *)
(* announcement, the answers to it, and the flits.  Router r has a mesh    *)
(* port p to n = Nbr(r, p), which has q = Opp(p) back to r.                *)

(* Nothing but the deferring router's "on" crosses a channel that wraps    *)
(* around, so that both its ends keep seeing the edge of the mesh there.   *)
Edge(r, p) ==
  /\ view[r][p] = "off"
  /\ out[r][p].new \in {"none", "on"} /\ ~out[r][p].done
  /\ wire[r][p].new \in {"none", "on"} /\ ~wire[r][p].done
  /\ avail[r][p].new \in {"none", "on"} /\ ~avail[r][p].done

(* The announcement that r is off travels behind no other, to a neighbour  *)
(* that knows of the drain and has answered.                               *)
OffTravels(r, p) ==
  LET n == Nbr(r, p)  q == Opp(p) IN
  /\ out[r][p].new = "off" => wire[r][p].new = "none"
  /\ phase = "read" /\ wire[r][p].new = "off" => avail[r][p].new = "none"
  /\ \/ out[r][p].new = "off"
     \/ wire[r][p].new = "off"
     \/ phase = "read" /\ avail[r][p].new = "off"
     => view[n][q] = "draining" /\ q \in sent[n]

(* The answer to the current drain is the last one, and a router that is   *)
(* off has no answer left under way and will get none.                     *)
LastAnswer(r, p) ==
  LET n == Nbr(r, p)  q == Opp(p) IN
  /\ GrantWire(r, p) => ~out[n][q].done
  /\ GrantAvail(r, p) => ~out[n][q].done /\ ~wire[n][q].done
  /\ GrantTag(r, p) \/ power[r] = "off" =>
       ~out[n][q].done /\ ~wire[n][q].done /\ (phase = "read" => ~avail[n][q].done)
  /\ power[r] = "off" => view[n][q] = "off" \/ q \in sent[n]

(* No flit travels to r behind the answer, nor while n does not yet know   *)
(* that r is off.                                                          *)
NoFlitBehind(r, p) ==
  LET n == Nbr(r, p)  q == Opp(p) IN
  /\ GrantWire(r, p) => <<n, q>> \notin flitWire
  /\ \/ GrantAvail(r, p)
     \/ GrantTag(r, p)
     \/ power[r] = "off" /\ view[n][q] = "draining"
     => <<n, q>> \notin flitWire /\ <<n, q>> \notin flitAvail

TravelInv(r, p) == OffTravels(r, p) /\ LastAnswer(r, p) /\ NoFlitBehind(r, p)

LInv ==
  /\ \A r \in Router : \A p \in BoundaryPorts(r) : Edge(r, p)
  /\ \A r \in Router : \A p \in MeshPorts(r) : TravelInv(r, p)

-----------------------------------------------------------------------------
(* A channel that wraps around does so at both its ends.                   *)
LEMMA EdgeLink ==
  ASSUME NEW r \in Router, NEW p \in BoundaryPorts(r)
  PROVE  /\ p \in Port
         /\ Nbr(r, p) \in Router
         /\ Opp(p) \in BoundaryPorts(Nbr(r, p))
<1> USE KAssumption DEF Router, Coord, BoundaryPorts, Port, Boundary, Nbr, Opp, Succ, Pred
<1>0. PICK i \in Coord, j \in Coord : r = <<i, j>>
  OBVIOUS
<1>1. p \in 0 .. 3 /\ Boundary(r, p)
  OBVIOUS
<1>2. CASE p = 0
  BY <1>0, <1>1, <1>2
<1>3. CASE p = 1
  BY <1>0, <1>1, <1>3
<1>4. CASE p = 2
  BY <1>0, <1>1, <1>4
<1>5. CASE p = 3
  BY <1>0, <1>1, <1>5
<1> QED
  BY <1>1, <1>2, <1>3, <1>4, <1>5

(* At the edge a router announces only that it is on again.                *)
LEMMA EdgeAnnounces ==
  ASSUME NEW r \in Router, power[r] \in PowerState, NEW p \in BoundaryPorts(r),
         p \in AnnouncesOn(r)
  PROVE  NextPower(r) = "on"
<1>1. NextPower(r) # power[r]
  BY PowerStep
<1>2. p \notin MeshPorts(r)
  BY DEF MeshPorts, BoundaryPorts
<1>3. Defers(r)
  BY <1>1, <1>2 DEF AnnouncesOn
<1> QED
  BY <1>3, PowerStep DEF Defers, PowersOff, PowerState

(* Both kinds of link are quiet before the first cycle.                    *)
LEMMA InitLInv == Init => LInv
<1> SUFFICES ASSUME Init PROVE LInv
  OBVIOUS
<1>1. ASSUME NEW r \in Router, NEW p \in BoundaryPorts(r) PROVE Edge(r, p)
  BY <1>1 DEF Init, Edge, NoMsg, BoundaryPorts
<1>2. ASSUME NEW r \in Router, NEW p \in MeshPorts(r) PROVE TravelInv(r, p)
  <2>1. p \in Port /\ Nbr(r, p) \in Router /\ Opp(p) \in Port
    BY MeshLink
  <2>2. /\ power[r] = "on" /\ flitWire = {} /\ flitAvail = {}
        /\ \A s \in Router : \A k \in Port :
             /\ out[s][k].new = "none" /\ wire[s][k].new = "none" /\ avail[s][k].new = "none"
    BY DEF Init, NoMsg
  <2> QED
    BY <2>1, <2>2 DEF TravelInv, OffTravels, LastAnswer, NoFlitBehind, GrantWire, GrantAvail,
                      GrantTag, Answers
<1> QED
  BY <1>1, <1>2 DEF LInv

(* A step that leaves the links alone.                                     *)
LEMMA LInvUnchanged ==
  LInv /\ UNCHANGED Regular /\ UNCHANGED <<flitWire, flitAvail>> => LInv'
BY DEF LInv, Regular, Edge, TravelInv, OffTravels, LastAnswer, NoFlitBehind, GrantWire, GrantAvail,
       GrantTag, Answers

(* What a link carries is read in the order in which it was sent.          *)
LEMMA LInvRead == IInv /\ LInv /\ ReadInputs => LInv'
<1> SUFFICES ASSUME IInv, LInv, ReadInputs PROVE LInv'
  OBVIOUS
<1>1. /\ phase = "read" /\ phase' = "power"
      /\ UNCHANGED <<power, reqHid, out, wire, avail, flitWire, flitAvail>>
  BY DEF ReadInputs, chans
<1>2. ASSUME NEW r \in Router, NEW p \in BoundaryPorts(r) PROVE Edge(r, p)'
  <2>1. p \in Port /\ Nbr(r, p) \in Router /\ Opp(p) \in BoundaryPorts(Nbr(r, p))
    BY EdgeLink
  <2>2. Edge(r, p) /\ Edge(Nbr(r, p), Opp(p))
    BY <2>1 DEF LInv
  <2>3. ~UpdatesView(r, p, Arriving(r, p))
    BY <2>2 DEF Edge, UpdatesView, Arriving
  <2>4. view'[r][p] = view[r][p]
    BY <2>1, <2>3 DEF ReadInputs
  <2> QED
    BY <1>1, <2>2, <2>4 DEF Edge
<1>3. ASSUME NEW r \in Router, NEW p \in MeshPorts(r) PROVE TravelInv(r, p)'
  <2> DEFINE n == Nbr(r, p)
             q == Opp(p)
             m == avail[r][p]
             a == avail[n][q]
  <2>1. /\ p \in Port /\ n \in Router /\ q \in Port /\ q \in MeshPorts(n)
        /\ Nbr(n, q) = r /\ Opp(q) = p
    BY MeshLink
  <2>2. LinkInv(r, p) /\ TravelInv(r, p)
    BY DEF IInv, LInv
  <2>3. Arriving(n, q) = m /\ Arriving(r, p) = a
    BY <2>1 DEF Arriving
  <2>4. /\ view'[n][q] = IF UpdatesView(n, q, m) THEN m.new ELSE view[n][q]
        /\ q \in sent'[n] <=> q \in sent[n] /\ ~UpdatesView(n, q, m)
        /\ p \in tags'[r] <=> p \in tags[r] \/ Consents(r, p, a)
    BY <2>1, <2>3 DEF ReadInputs
  <2>5. out[r][p].new = "none" /\ ~out[n][q].done
    BY <1>1, <2>1 DEF IInv, Shape, NoMsg
  <2>6. ~GrantAvail(r, p)' /\ (GrantWire(r, p)' <=> GrantWire(r, p))
    BY <1>1 DEF GrantAvail, GrantWire, Answers
  <2>7. GrantTag(r, p)' => GrantTag(r, p) \/ GrantAvail(r, p)
    BY <1>1, <2>4 DEF GrantTag, GrantAvail, Answers, Consents
  <2>8. OffTravels(r, p)'
    BY <1>1, <2>2, <2>4, <2>5 DEF TravelInv, OffTravels, UpdatesView
  <2>9. LastAnswer(r, p)'
    <3>1. power[r] = "off" => view'[n][q] = "off" \/ q \in sent'[n]
      <4>1. power[r] = "off" => m.new \in {"none", "off"}
        BY <1>1, <2>2 DEF LinkInv, OffAlone
      <4> QED
        BY <2>2, <2>4, <4>1 DEF TravelInv, LastAnswer, UpdatesView
    <3> QED
      BY <1>1, <2>2, <2>5, <2>6, <2>7, <3>1 DEF TravelInv, LastAnswer
  <2>10. NoFlitBehind(r, p)'
    <3>1. power[r] = "off" /\ view'[n][q] = "draining" => view[n][q] = "draining"
      <4>1. power[r] = "off" => m.new \in {"none", "off"}
        BY <1>1, <2>2 DEF LinkInv, OffAlone
      <4> QED
        BY <2>4, <4>1 DEF UpdatesView
    <3> QED
      BY <1>1, <2>2, <2>6, <2>7, <3>1 DEF TravelInv, NoFlitBehind
  <2> QED
    BY <2>8, <2>9, <2>10 DEF TravelInv
<1> QED
  BY <1>1, <1>2, <1>3 DEF LInv, BoundaryPorts, MeshPorts

(* The state machine announces "off" only with all answers in, and behind  *)
(* no other announcement; a new drain has no answer yet.                   *)
LEMMA LInvPower == IInv /\ LInv /\ PowerStateEvaluate => LInv'
<1> SUFFICES ASSUME IInv, LInv, PowerStateEvaluate PROVE LInv'
  OBVIOUS
<1>1. /\ phase = "power" /\ phase' = "eval"
      /\ UNCHANGED <<view, sent, wire, avail, flitWire, flitAvail>>
  BY DEF PowerStateEvaluate, packets
<1>2. ASSUME NEW r \in Router, NEW p \in Port
      PROVE  /\ power'[r] = NextPower(r) /\ power[r] \in PowerState
             /\ p \in AnnouncesOn(r) => out'[r][p].new = power'[r]
             /\ p \notin AnnouncesOn(r) => out'[r][p].new = "none"
             /\ ~out'[r][p].done
  BY DEF PowerStateEvaluate, IInv, TypeOK, NoMsg
<1>3. ASSUME NEW r \in Router, NEW p \in BoundaryPorts(r) PROVE Edge(r, p)'
  <2>1. p \in Port
    BY DEF BoundaryPorts
  <2>2. out'[r][p].new \in {"none", "on"} /\ ~out'[r][p].done
    BY <1>2, <2>1, EdgeAnnounces
  <2> QED
    BY <1>1, <2>2 DEF LInv, Edge
<1>4. ASSUME NEW r \in Router, NEW p \in MeshPorts(r) PROVE TravelInv(r, p)'
  <2> DEFINE n == Nbr(r, p)
             q == Opp(p)
  <2>1. p \in Port /\ n \in Router /\ q \in Port
    BY MeshLink
  <2>2. LinkInv(r, p) /\ TravelInv(r, p)
    BY DEF IInv, LInv
  <2>3. ~out'[n][q].done /\ ~GrantAvail(r, p)'
    BY <1>1, <1>2, <2>1 DEF GrantAvail
  <2>4. Granted(r, p)' => power[r] = "draining" /\ power'[r] = "draining" /\ Granted(r, p)
    BY ConsentOfDrain
  <2>5. power[r] = "draining" /\ power'[r] = "draining"
          => reqHid'[r][p] = reqHid[r][p] /\ tags'[r] = tags[r]
    <3> SUFFICES ASSUME power[r] = "draining", power'[r] = "draining"
                 PROVE  reqHid'[r][p] = reqHid[r][p] /\ tags'[r] = tags[r]
      OBVIOUS
    <3>1. NextPower(r) = "draining" /\ AnnouncesOn(r) = {} /\ ~StartsDraining(r)
      BY <1>2, <2>1, PowerStep DEF StartsDraining
    <3> QED
      BY <2>1, <3>1 DEF PowerStateEvaluate
  <2>6. /\ GrantWire(r, p)' => GrantWire(r, p)
        /\ GrantTag(r, p)' => GrantTag(r, p)
    BY <1>1, <2>4, <2>5 DEF Granted, GrantWire, GrantTag, Answers
  <2>7. power[r] # "off" /\ power'[r] = "off" =>
          /\ GrantTag(r, p) /\ NoUnread(r, p)
          /\ q \in sent[n] /\ view[n][q] = "draining"
    <3> SUFFICES ASSUME power[r] # "off", power'[r] = "off"
                 PROVE  /\ GrantTag(r, p) /\ NoUnread(r, p)
                        /\ q \in sent[n] /\ view[n][q] = "draining"
      OBVIOUS
    <3>1. PowersOff(r)
      BY <1>2, <2>1, PowerStep DEF PowerState
    <3>2. GrantTag(r, p)
      BY <1>1, <3>1, PowersOffAlone
    <3> QED
      BY <2>2, <3>2 DEF LinkInv, Consent, Granted, Told, GrantTag
  <2>8. /\ out'[r][p].new = "off" => power'[r] = "off" /\ power[r] # "off"
        /\ power[r] = "off" => power'[r] = "off"
    BY <1>2, <2>1, PowerStep
  <2>9. OffTravels(r, p)'
    BY <1>1, <2>2, <2>7, <2>8 DEF TravelInv, OffTravels, NoUnread
  <2>10. LastAnswer(r, p)'
    BY <1>1, <2>2, <2>3, <2>6, <2>7, <2>8 DEF TravelInv, LastAnswer
  <2>11. NoFlitBehind(r, p)'
    BY <1>1, <2>2, <2>3, <2>6, <2>7, <2>8 DEF TravelInv, NoFlitBehind
  <2> QED
    BY <2>9, <2>10, <2>11 DEF TravelInv
<1> QED
  BY <1>1, <1>3, <1>4 DEF LInv, BoundaryPorts, MeshPorts

(* A neighbour that has answered does not answer again.                    *)
LEMMA LInvEvaluate == IInv /\ LInv /\ Evaluate => LInv'
<1> SUFFICES ASSUME IInv, LInv, Evaluate PROVE LInv'
  OBVIOUS
<1>1. /\ phase = "eval" /\ phase' = "write"
      /\ UNCHANGED <<power, view, tags, reqHid, wire, avail, flitWire, flitAvail>>
  BY DEF Evaluate
<1>2. PICK act \in SUBSET Traffic :
        /\ out' = [r \in Router |-> [p \in Port |->
                    IF Responds(r, p, act)
                    THEN [new |-> out[r][p].new, done |-> TRUE, hid |-> respHid[r][p]]
                    ELSE out[r][p]]]
        /\ sent' = [r \in Router |-> sent[r] \cup {p \in Port : Responds(r, p, act)}]
  BY DEF Evaluate
<1>3. ASSUME NEW r \in Router, NEW p \in Port
      PROVE  /\ out'[r][p].new = out[r][p].new
             /\ view[r][p] # "draining" \/ p \in sent[r] => out'[r][p] = out[r][p]
             /\ p \in sent[r] => p \in sent'[r]
  BY <1>2 DEF Responds
<1>4. ASSUME NEW r \in Router, NEW p \in BoundaryPorts(r) PROVE Edge(r, p)'
  <2>1. p \in Port /\ Edge(r, p)
    BY DEF BoundaryPorts, LInv
  <2> QED
    BY <1>1, <1>3, <2>1 DEF Edge
<1>5. ASSUME NEW r \in Router, NEW p \in MeshPorts(r) PROVE TravelInv(r, p)'
  <2> DEFINE n == Nbr(r, p)
             q == Opp(p)
  <2>1. p \in Port /\ n \in Router /\ q \in Port
    BY MeshLink
  <2>2. LinkInv(r, p) /\ TravelInv(r, p)
    BY DEF IInv, LInv
  <2>3. ~GrantAvail(r, p)' /\ (GrantWire(r, p)' <=> GrantWire(r, p))
          /\ (GrantTag(r, p)' <=> GrantTag(r, p))
    BY <1>1 DEF GrantAvail, GrantWire, GrantTag, Answers
  <2>4. GrantWire(r, p) \/ GrantTag(r, p) \/ power[r] = "off" => out'[n][q] = out[n][q]
    <3>1. GrantWire(r, p) \/ GrantTag(r, p) => q \in sent[n]
      BY <2>2 DEF LinkInv, Consent, Granted
    <3>2. power[r] = "off" => view[n][q] # "draining" \/ q \in sent[n]
      BY <2>2 DEF TravelInv, LastAnswer
    <3> QED
      BY <1>3, <2>1, <3>1, <3>2
  <2>5. OffTravels(r, p)'
    BY <1>1, <1>3, <2>1, <2>2 DEF TravelInv, OffTravels
  <2>6. LastAnswer(r, p)'
    BY <1>1, <1>3, <2>1, <2>2, <2>3, <2>4 DEF TravelInv, LastAnswer
  <2>7. NoFlitBehind(r, p)'
    BY <1>1, <2>2, <2>3 DEF TravelInv, NoFlitBehind
  <2> QED
    BY <2>5, <2>6, <2>7 DEF TravelInv
<1> QED
  BY <1>1, <1>4, <1>5 DEF LInv, BoundaryPorts, MeshPorts

(* A link that is quiet in both directions to a router that is off, or     *)
(* about to be, stays quiet: nobody sends on it, nobody flies over to it.  *)
LEMMA NothingSent ==
  ASSUME IInv, LInv, WriteOutputs, NEW r \in Router, NEW p \in MeshPorts(r),
         Granted(r, p) \/ (power[r] = "off" /\ view[Nbr(r, p)][Opp(p)] = "draining")
  PROVE  <<Nbr(r, p), Opp(p)>> \notin flitWire'
<1> DEFINE n == Nbr(r, p)
           q == Opp(p)
<1>1. /\ n \in Router /\ q \in MeshPorts(n)
  BY MeshLink
<1>2. LinkInv(r, p) /\ LinkInv(n, q) /\ TravelInv(r, p)
  BY <1>1 DEF IInv, LInv
<1>3. power[n] # "off" /\ <<n, q>> \notin active
  <2>1. CASE Granted(r, p)
    BY <2>1, GrantedQuiet
  <2>2. CASE power[r] = "off" /\ view[n][q] = "draining"
    BY <1>2, <2>2 DEF LinkInv, OffAlone, Silent, TravelInv, LastAnswer
  <2> QED
    BY <2>1, <2>2
<1>4. <<n, q>> \notin FliesOver
  BY <1>3 DEF FliesOver
<1> QED
  BY <1>3, <1>4 DEF WriteOutputs

(* The channels move handshakes and flits on at the same pace.             *)
LEMMA LInvWrite == IInv /\ LInv /\ WriteOutputs => LInv'
<1> SUFFICES ASSUME IInv, LInv, WriteOutputs PROVE LInv'
  OBVIOUS
<1>1. /\ phase = "write" /\ phase' = "read"
      /\ wire' = out /\ avail' = wire /\ flitAvail' = flitWire
      /\ UNCHANGED <<power, view, tags, sent, reqHid>>
  BY DEF WriteOutputs, ctrl
<1>2. \A r \in Router : \A p \in Port : out'[r][p].new = "none" /\ ~out'[r][p].done
  BY DEF WriteOutputs, NoMsg
<1>3. ASSUME NEW r \in Router, NEW p \in BoundaryPorts(r) PROVE Edge(r, p)'
  <2>1. p \in Port /\ Edge(r, p)
    BY DEF BoundaryPorts, LInv
  <2> QED
    BY <1>1, <1>2, <2>1 DEF Edge
<1>4. ASSUME NEW r \in Router, NEW p \in MeshPorts(r) PROVE TravelInv(r, p)'
  <2> DEFINE n == Nbr(r, p)
             q == Opp(p)
  <2>1. p \in Port /\ n \in Router /\ q \in Port
    BY MeshLink
  <2>2. TravelInv(r, p)
    BY DEF LInv
  <2>3. /\ GrantWire(r, p)' <=> GrantOut(r, p)
        /\ GrantAvail(r, p)' <=> GrantWire(r, p)
        /\ GrantTag(r, p)' <=> GrantTag(r, p)
    BY <1>1 DEF GrantOut, GrantWire, GrantAvail, GrantTag, Answers
  <2>4. OffTravels(r, p)'
    BY <1>1, <1>2, <2>1, <2>2 DEF TravelInv, OffTravels
  <2>5. LastAnswer(r, p)'
    BY <1>1, <1>2, <2>1, <2>2, <2>3 DEF TravelInv, LastAnswer
  <2>6. NoFlitBehind(r, p)'
    BY <1>1, <2>2, <2>3, NothingSent DEF TravelInv, NoFlitBehind, Granted
  <2> QED
    BY <2>4, <2>5, <2>6 DEF TravelInv
<1> QED
  BY <1>1, <1>3, <1>4 DEF LInv, BoundaryPorts, MeshPorts

(* Together with IInv, it is inductive.                                    *)
LEMMA LInvStep == IInv /\ LInv /\ [Next]_vars => LInv'
<1> SUFFICES ASSUME IInv, LInv, [Next]_vars PROVE LInv'
  OBVIOUS
<1>1. CASE ReadInputs
  BY <1>1, LInvRead
<1>2. CASE PowerStateEvaluate
  BY <1>2, LInvPower
<1>3. CASE Evaluate
  BY <1>3, LInvEvaluate
<1>4. CASE WriteOutputs
  BY <1>4, LInvWrite
<1>5. CASE UNCHANGED vars
  <2>1. UNCHANGED Regular /\ UNCHANGED <<flitWire, flitAvail>>
    BY <1>5 DEF Regular, vars, ctrl, chans, packets
  <2> QED
    BY <2>1, LInvUnchanged
<1> QED
  BY <1>1, <1>2, <1>3, <1>4, <1>5 DEF Next

-----------------------------------------------------------------------------
(* The assertions of _HandshakeEvaluate never fail: the news that a router *)
(* is off reaches only a neighbour that knows of the drain and answered    *)
(* it, and no answer reaches a router that is off already.                 *)
THEOREM OffIsAlwaysExpected == Spec => []OffIsExpected
<1>1. IInv /\ LInv => OffIsExpected
  <2> SUFFICES ASSUME IInv, LInv, phase = "read", NEW r \in Router, NEW p \in Port
               PROVE  LET m == Arriving(r, p) IN
                      /\ m.new = "off" => view[r][p] = "draining" /\ p \in sent[r]
                      /\ m.done => power[r] # "off"
    BY DEF OffIsExpected
  <2>1. CASE p \in BoundaryPorts(r)
    <3>1. Nbr(r, p) \in Router /\ Opp(p) \in BoundaryPorts(Nbr(r, p))
      BY <2>1, EdgeLink
    <3> QED
      BY <3>1 DEF LInv, Edge, Arriving
  <2>2. CASE p \in MeshPorts(r)
    <3>1. /\ Nbr(r, p) \in Router /\ Opp(p) \in MeshPorts(Nbr(r, p))
          /\ Nbr(Nbr(r, p), Opp(p)) = r /\ Opp(Opp(p)) = p
      BY <2>2, MeshLink
    <3>2. OffTravels(Nbr(r, p), Opp(p)) /\ LastAnswer(r, p)
      BY <2>2, <3>1 DEF LInv, TravelInv
    <3> QED
      BY <3>1, <3>2 DEF OffTravels, LastAnswer, Arriving
  <2> QED
    BY <2>1, <2>2 DEF BoundaryPorts, MeshPorts
<1> QED
  BY <1>1, InitIInv, IInvStep, InitLInv, LInvStep, PTL DEF Spec

(* No flit is on its way to a router whose pipeline was switched off under *)
(* it: _HandshakeResponse waits for the link to be idle, and the answer    *)
(* takes as long as the last flit before it.                               *)
THEOREM FlitsAreNeverCutOff == Spec => []NoFlitCutOff
<1>1. IInv /\ LInv => NoFlitCutOff
  <2> SUFFICES ASSUME IInv, LInv, NEW l \in flitWire \cup flitAvail,
                      power[Nbr(l[1], l[2])] = "off"
               PROVE  view[l[1]][l[2]] = "off"
    BY DEF NoFlitCutOff
  <2>1. l[1] \in Router /\ l[2] \in Port /\ l = <<l[1], l[2]>>
    BY DEF IInv, TypeOK, Link
  <2>2. CASE l[2] \in BoundaryPorts(l[1])
    BY <2>1, <2>2 DEF LInv, Edge
  <2>3. CASE l[2] \in MeshPorts(l[1])
    <3> DEFINE r == Nbr(l[1], l[2])
               p == Opp(l[2])
    <3>1. r \in Router /\ p \in MeshPorts(r) /\ Nbr(r, p) = l[1] /\ Opp(p) = l[2]
      BY <2>1, <2>3, MeshLink
    <3>2. view[l[1]][l[2]] \in {"draining", "off"}
      BY <3>1 DEF IInv, LinkInv, OffAlone
    <3>3. view[l[1]][l[2]] # "draining"
      BY <2>1, <3>1 DEF LInv, TravelInv, NoFlitBehind
    <3> QED
      BY <3>2, <3>3
  <2> QED
    BY <2>1, <2>2, <2>3 DEF BoundaryPorts, MeshPorts
<1> QED
  BY <1>1, InitIInv, IInvStep, InitLInv, LInvStep, PTL DEF Spec
=============================================================================
