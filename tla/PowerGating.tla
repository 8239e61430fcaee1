---------------------------- MODULE PowerGating ----------------------------
(***************************************************************************)
(* What fly-over power-gating promises, without handshakes: a router asks  *)
(* its mesh neighbours for consent and goes off once it has it from all of *)
(* them, while they stay on.  A neighbour consents when it has stopped     *)
(* sending to the router, and does not start again before the request is   *)
(* withdrawn or the router is off.  The routers act at once; Rflov         *)
(* implements this specification.                                          *)
(***************************************************************************)
EXTENDS Mesh

CONSTANT Gateable   \* the routers that may go off

VARIABLES
  power,    \* "on", "draining" (asking for consent) or "off"
  consent,  \* the mesh ports of every router behind which there is consent
  sending   \* the links <<r, p>> over which r sends to the router behind p

gating == <<power, consent, sending>>

Init ==
  /\ power = [r \in Router |-> "on"]
  /\ consent = [r \in Router |-> {}]
  /\ sending = {}

Asks(r) ==
  /\ power[r] = "on" /\ r \in Gateable
  /\ power'[r] = "draining" /\ consent'[r] = {}

Withdraws(r) ==
  /\ power[r] = "draining"
  /\ power'[r] = "on" /\ consent'[r] = {}

(* Any number of neighbours consent. *)
IsAnswered(r) ==
  /\ power[r] = "draining" /\ power'[r] = "draining"
  /\ consent[r] \subseteq consent'[r] /\ consent'[r] \subseteq MeshPorts(r)
  /\ \A p \in consent'[r] \ consent[r] :
       power[Nbr(r, p)] # "off" /\ <<Nbr(r, p), Opp(p)>> \notin sending'

GoesOff(r) ==
  /\ power[r] = "draining" /\ consent[r] = MeshPorts(r)
  /\ \A p \in MeshPorts(r) : power'[Nbr(r, p)] = "on"
  /\ power'[r] = "off" /\ consent'[r] = {}

Stays(r) == power'[r] = power[r] /\ consent'[r] = consent[r]

(* Nobody starts to send to a router whose request it consented to. *)
Sends == \A l \in sending' \ sending : Opp(l[2]) \notin consent'[Nbr(l[1], l[2])]

Next ==
  /\ \A r \in Router : Asks(r) \/ Withdraws(r) \/ IsAnswered(r) \/ GoesOff(r) \/ Stays(r)
  /\ Sends

Spec == Init /\ [][Next]_gating
=============================================================================
