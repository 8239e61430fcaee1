----------------------------- MODULE FlyCredits -----------------------------
(***************************************************************************)
(* Flow control along a row of FLOVRouters: how the credits of a buffer    *)
(* find the router that sends to it while routers in between switch off    *)
(* and on.                                                                 *)
(*                                                                         *)
(* Packets of one virtual channel fly East over routers 0, 1, ..., Last.   *)
(* Every router keeps an image (BufferState) of the buffer of the next     *)
(* router; when that one is off the image stands for the buffer beyond it. *)
(* A router that goes off hands the free slots it knew of to the router    *)
(* West of it (_credit_counter), one by one, and from then on relays the   *)
(* credits that come from the East.                                        *)
(*                                                                         *)
(* Of the power-gating protocol this module keeps what reaches credits:    *)
(* announcements travelling West, answers travelling East, both relayed.   *)
(* That an answer belongs to the current drain, and which of two routers   *)
(* may drain, is the matter of module Flov; here one router at a time      *)
(* changes, once the announcements of the last change have arrived.        *)
(***************************************************************************)
EXTENDS Integers

CONSTANTS
  Last,         \* the last router of the row; 0 and Last are always on
  Size,         \* vc_buf_size: slots of a buffer
  PacketSize,   \* flits of the packets of every router
  WaitForTail,  \* wait_for_tail_credit
  MaxSwitches,  \* bound: changes from on to draining and from off to wakeup
  MaxPackets    \* bound: packets a router sends

ASSUME FlyCreditsAssumption ==
  /\ {Last, Size} \subseteq Nat \ {0}
  /\ PacketSize \in [0 .. Last -> Nat \ {0}]
  /\ {MaxSwitches, MaxPackets} \subseteq Nat
  /\ WaitForTail \in BOOLEAN

Pos    == 0 .. Last
Middle == 1 .. Last - 1

VARIABLES
  phase,      \* the phase of the cycle that runs next
  power,      \* _power_state
  down,       \* _downstream_states to the East
  sent,       \* routers that answered the downstream router
  tag,        \* routers whose drain tag to the West is up
  image,      \* _next_buf to the East
  counter,    \* _credit_counter of the buffer to the East
  left,       \* flits of the packet that holds the VC to the East
  buf,        \* flits in the input buffer from the West
  xbar,       \* flit in the crossbar, to the East
  flitOut,    \* flit in the output buffer
  credOut,    \* _out_queue_credits to the West
  annOut,     \* announcement to be sent West
  ansOut,     \* routers with an answer to be sent East
  flit, cred, ann, ans,      \* the channels' wait queues, by sender
  flitIn, credIn, annIn, ansIn,  \* the channels' outputs, by sender
  packets,    \* packets started, per router
  switches    \* changes of power state started

state    == <<power, down, sent, tag>>
credits  == <<image, counter>>
flits    == <<left, buf, xbar>>
outs     == <<flitOut, credOut, annOut, ansOut>>
channels == <<flit, cred, ann, ans, flitIn, credIn, annIn, ansIn>>
vars     == <<phase, state, credits, flits, outs, channels, packets, switches>>

PowerState == {"on", "draining", "off", "wakeup"}
Idle       == {"on", "draining"}
Bypassed   == {"off", "wakeup"}

Flit   == [head : BOOLEAN, tail : BOOLEAN, none : {FALSE}]
NoFlit == [head |-> FALSE, tail |-> FALSE, none |-> TRUE]

(* src: the state of the announcing router; new: that of the router which  *)
(* is downstream of the receiver from now on.                              *)
Announcement == [src : PowerState, new : PowerState]
NoAnn        == [src |-> "none", new |-> "none"]

Init ==
  /\ phase = "read"
  /\ power = [i \in Pos |-> "on"]
  /\ down = [i \in Pos |-> IF i = Last THEN "off" ELSE "on"]
  /\ sent = {}
  /\ tag = {}
  /\ image = [i \in Pos |-> [occ |-> 0, inUse |-> FALSE, tail |-> FALSE]]
  /\ counter = [i \in Pos |-> 0]
  /\ left = [i \in Pos |-> 0]
  /\ buf = [i \in Pos |-> 0]
  /\ xbar = [i \in Pos |-> NoFlit]
  /\ flitOut = xbar /\ flit = xbar /\ flitIn = xbar
  /\ annOut = [i \in Pos |-> NoAnn] /\ ann = annOut /\ annIn = annOut
  /\ credOut = {} /\ cred = {} /\ credIn = {}
  /\ ansOut = {} /\ ans = {} /\ ansIn = {}
  /\ packets = [i \in Pos |-> 0]
  /\ switches = 0

-----------------------------------------------------------------------------
(* BufferState, for one virtual channel.                                   *)

(* Bug: the last credit does not give the VC back. *)
Bug_ProcessCredit(b) == [b EXCEPT !.occ = @ - 1]

ProcessCredit(b) ==
  [b EXCEPT !.occ = @ - 1,
            !.inUse = @ /\ ~(WaitForTail /\ b.occ = 1 /\ b.tail)]

SendingFlit(b, f) ==
  [b EXCEPT !.occ = @ + 1,
            !.tail = @ \/ f.tail,
            !.inUse = @ /\ (f.tail => WaitForTail)]

TakeBuffer(b)   == [b EXCEPT !.inUse = TRUE, !.tail = FALSE]
ReturnBuffer(b) == [b EXCEPT !.inUse = FALSE, !.tail = FALSE]

(* Bug: the slots of the router that went off are counted as free at once. *)
Bug_ClearCredits(b) == [b EXCEPT !.inUse = TRUE, !.tail = TRUE]

ClearCredits(b) == [occ |-> b.occ + Size, inUse |-> TRUE, tail |-> TRUE]

(* Bug: the occupancy of the image survives the wake-up. *)
Bug_FullCredits(b) == [b EXCEPT !.inUse = FALSE, !.tail = FALSE]

FullCredits(b)  == [occ |-> 0, inUse |-> FALSE, tail |-> FALSE]

-----------------------------------------------------------------------------
(* ReadInputs: _HandshakeEvaluate.                                         *)

FromEast(i) == IF i < Last THEN annIn[i + 1] ELSE NoAnn
Answered(i) == i > 0 /\ (i - 1) \in ansIn

(* The two announcements that change what the image stands for. *)
WentOff(i) == FromEast(i).src = "off"
WokeUp(i)  == FromEast(i).src = "on" /\ down[i] = "wakeup"

ImageAfter(i) ==
  CASE WentOff(i) -> ClearCredits(image[i])
    [] WokeUp(i)  -> FullCredits(image[i])
    [] OTHER      -> image[i]

CounterAfter(i) ==
  IF power[i] \in Bypassed /\ (WentOff(i) \/ WokeUp(i)) THEN 0 ELSE counter[i]

ReadInputs ==
  /\ phase = "read"
  /\ phase' = "power"
  /\ down' = [i \in Pos |-> IF FromEast(i) = NoAnn THEN down[i] ELSE FromEast(i).new]
  /\ image' = [i \in Pos |-> ImageAfter(i)]
  /\ counter' = [i \in Pos |-> CounterAfter(i)]
  /\ sent' = {i \in sent : FromEast(i) = NoAnn}
  /\ tag' = tag \cup {i \in Pos : Answered(i) /\ power[i] \in {"draining", "wakeup"}}
  /\ annOut' = [i \in Pos |-> IF power[i] \in Bypassed THEN FromEast(i) ELSE NoAnn]
  /\ ansOut' = {i \in Pos : Answered(i) /\ power[i] = "off" /\ down'[i] \in {"draining", "wakeup"}}
  /\ UNCHANGED <<power, flits, flitOut, credOut, channels, packets, switches>>

-----------------------------------------------------------------------------
(* PowerStateEvaluate: one router changes its state, or none does.         *)

Queued(i) == i > 0 /\ flitIn[i - 1] # NoFlit     \* _in_queue_flits

(* No change of state is under way or travelling. *)
Quiet ==
  /\ \A i \in Pos : power[i] \in {"on", "off"}
  /\ \A i \in Pos : {annOut[i], ann[i], annIn[i]} = {NoAnn}

Drained(i) ==
  /\ i \in tag
  /\ left[i] = 0
  /\ buf[i] = 0
  /\ xbar[i] = NoFlit
  /\ flitOut[i] = NoFlit
  /\ ~Queued(i)

(* What router i may turn into. *)
Becomes(i, s) ==
  \/ Quiet /\ switches < MaxSwitches /\ power[i] = "on" /\ s = "draining"
  \/ Quiet /\ switches < MaxSwitches /\ power[i] = "off" /\ s = "wakeup"
  \/ power[i] = "draining" /\ Drained(i) /\ s = "off"
  \/ power[i] = "wakeup" /\ i \in tag /\ ~Queued(i) /\ annOut[i] = NoAnn /\ s = "on"

(* Bug: the slots already in use are handed over as free. *)
Bug_FreeSlots(i) == Size

FreeSlots(i) == Size - image[i].occ              \* AvailableFor

Switch(i, s) ==
  /\ Becomes(i, s)
  /\ power' = [power EXCEPT ![i] = s]
  /\ tag' = tag \ {i}
  /\ counter' = IF s = "off" THEN [counter EXCEPT ![i] = FreeSlots(i)] ELSE counter
  /\ annOut' = [annOut EXCEPT ![i] = [src |-> s, new |-> IF s = "off" THEN down[i] ELSE s]]
  /\ switches' = IF s \in {"draining", "wakeup"} THEN switches + 1 ELSE switches

PowerStateEvaluate ==
  /\ phase = "power"
  /\ phase' = "eval"
  /\ \/ \E i \in Middle, s \in PowerState : Switch(i, s)
     \/ UNCHANGED <<power, tag, counter, annOut, switches>>
  /\ UNCHANGED <<down, sent, image, flits, flitOut, credOut, ansOut, channels, packets>>

-----------------------------------------------------------------------------
(* Evaluate: the pipeline of a router that is on or draining, _FlovStep of *)
(* one that is off or wakes up.                                            *)

Credited(i) == (i + 1) \in credIn
Image1(i)   == IF Credited(i) THEN ProcessCredit(image[i]) ELSE image[i]

(* VC allocation, refused unless the downstream router is on. *)
MayTake(i) ==
  /\ i < Last
  /\ power[i] \in Idle
  /\ packets[i] < MaxPackets
  /\ left[i] = 0
  /\ ~Image1(i).inUse
  /\ down[i] = "on"

(* Switch allocation; a head flit whose downstream router is not on any    *)
(* more goes back to routing and returns the VC.                           *)
AtHead(i)    == left[i] = PacketSize[i]
MaySend(i)   == left[i] > 0 /\ Image1(i).occ < Size /\ (AtHead(i) => down[i] = "on")
MayReturn(i) == AtHead(i) /\ left[i] > 0 /\ Image1(i).occ < Size /\ down[i] # "on"

(* The router moves a flit out of its buffer and frees the slot. *)
MayFree(i) == power[i] \in Idle /\ buf[i] + (IF Queued(i) THEN 1 ELSE 0) > 0

Scheduled(i) == [head |-> AtHead(i), tail |-> left[i] = 1, none |-> FALSE]

(* _FlovStep *)
FlownOver(i) ==
  IF ~Queued(i) THEN Image1(i)
  ELSE LET f == flitIn[i - 1]
           b == SendingFlit(IF f.head THEN TakeBuffer(image[i]) ELSE image[i], f)
       IN IF Credited(i) THEN ProcessCredit(b) ELSE b

HandsOver(i) == power[i] \in Bypassed /\ counter[i] > 0 /\ ~Credited(i)

Responds(i) ==
  /\ i < Last
  /\ power[i] \in Idle
  /\ down[i] \in {"draining", "wakeup"}
  /\ i \notin sent
  /\ left'[i] = 0
  /\ xbar'[i] = NoFlit
  /\ flitOut'[i] = NoFlit

Evaluate ==
  /\ phase = "eval"
  /\ phase' = "write"
  /\ \E take \in SUBSET {i \in Pos : MayTake(i)},
        send \in SUBSET {i \in Pos : MaySend(i)},
        back \in SUBSET {i \in Pos : MayReturn(i)},
        free \in SUBSET {i \in Pos : MayFree(i)} :
       /\ left' = [i \in Pos |-> CASE i \in take -> PacketSize[i]
                                   [] i \in send -> left[i] - 1
                                   [] i \in back -> 0
                                   [] OTHER      -> left[i]]
       /\ packets' = [i \in Pos |-> IF i \in take THEN packets[i] + 1 ELSE packets[i]]
       /\ image' = [i \in Pos |->
                     CASE power[i] \in Bypassed -> FlownOver(i)
                       [] i \in take            -> TakeBuffer(Image1(i))
                       [] i \in send            -> SendingFlit(Image1(i), Scheduled(i))
                       [] i \in back            -> ReturnBuffer(Image1(i))
                       [] OTHER                 -> Image1(i)]
       /\ buf' = [i \in Pos |->
                   IF power[i] \in Bypassed THEN buf[i]
                   ELSE buf[i] + (IF Queued(i) THEN 1 ELSE 0) - (IF i \in free THEN 1 ELSE 0)]
       /\ xbar' = [i \in Pos |-> IF i \in send THEN Scheduled(i) ELSE NoFlit]
       /\ flitOut' = [i \in Pos |-> IF power[i] \in Bypassed
                                    THEN (IF Queued(i) THEN flitIn[i - 1] ELSE NoFlit)
                                    ELSE xbar[i]]
       /\ credOut' = {i \in Pos : \/ i \in free
                                  \/ power[i] \in Bypassed /\ Credited(i)
                                  \/ HandsOver(i)}
  /\ counter' = [i \in Pos |-> IF HandsOver(i) THEN counter[i] - 1 ELSE counter[i]]
  /\ ansOut' = ansOut \cup {i \in Pos : Responds(i)}
  /\ sent' = sent \cup {i \in Pos : Responds(i)}
  /\ UNCHANGED <<power, down, tag, annOut, channels, switches>>

-----------------------------------------------------------------------------
(* WriteOutputs, and one cycle of the channels.                            *)

WriteOutputs ==
  /\ phase = "write"
  /\ phase' = "read"
  /\ flit' = flitOut /\ flitIn' = flit /\ flitOut' = [i \in Pos |-> NoFlit]
  /\ cred' = credOut /\ credIn' = cred /\ credOut' = {}
  /\ ann' = annOut /\ annIn' = ann /\ annOut' = [i \in Pos |-> NoAnn]
  /\ ans' = ansOut /\ ansIn' = ans /\ ansOut' = {}
  /\ UNCHANGED <<state, credits, flits, packets, switches>>

Next == ReadInputs \/ PowerStateEvaluate \/ Evaluate \/ WriteOutputs

Spec == Init /\ [][Next]_vars

-----------------------------------------------------------------------------
(* Properties.                                                             *)

(* Every variable has its type; in particular an image counts at most two   *)
(* buffers (ClearCredits adds one to the slots in use) and a router hands   *)
(* over at most one.                                                        *)
TypeOK ==
  /\ phase \in {"read", "power", "eval", "write"}
  /\ power \in [Pos -> PowerState]
  /\ down \in [Pos -> PowerState]
  /\ {sent, tag, credOut, cred, credIn, ansOut, ans, ansIn} \subseteq SUBSET Pos
  /\ image \in [Pos -> [occ : 0 .. 2 * Size, inUse : BOOLEAN, tail : BOOLEAN]]
  /\ counter \in [Pos -> 0 .. Size]
  /\ \A i \in Pos : left[i] \in 0 .. PacketSize[i]
  /\ buf \in [Pos -> 0 .. Size]
  /\ {xbar, flitOut, flit, flitIn} \subseteq [Pos -> Flit \cup {NoFlit}]
  /\ {annOut, ann, annIn} \subseteq [Pos -> Announcement \cup {NoAnn}]

(* Every variable keeps its type and bounds, and the errors of Buffer and  *)
(* BufferState do not occur: no flit comes to a full buffer or flies over  *)
(* into a VC in use, no credit comes back for a slot that is free or a VC  *)
(* that nobody holds, and a router that goes off never owes more slots     *)
(* than the buffer has.                                                    *)
NoError ==
  /\ TypeOK
  /\ phase = "eval" => \A i \in Pos :
       /\ Credited(i) => image[i].occ > 0 /\ (WaitForTail => image[i].inUse)
       /\ Queued(i) /\ power[i] \in Idle => buf[i] < Size
       /\ Queued(i) /\ power[i] \in Bypassed =>
            /\ image[i].occ < Size
            /\ flitIn[i - 1].head => ~image[i].inUse
  /\ phase = "power" => \A i \in Middle : Becomes(i, "off") => FreeSlots(i) >= 0

(* No flit, credit or announcement is in transit, and no slot is waiting   *)
(* to be handed over.                                                      *)
Settled ==
  /\ phase = "read"
  /\ credIn \cup cred = {}
  /\ \A i \in Pos : /\ counter[i] = 0
                    /\ {xbar[i], flit[i], flitIn[i]} = {NoFlit}
                    /\ {ann[i], annIn[i]} = {NoAnn}

(* The router whose buffer the image of router i stands for. *)
Next1(i) == CHOOSE d \in i + 1 .. Last :
              /\ power[d] \in Idle
              /\ \A m \in i + 1 .. d - 1 : power[m] \in Bypassed

(* No slot is lost or invented, however often routers in between switched: *)
(* once everything has arrived, the image of every router, on or off, is   *)
(* what is in the buffer it stands for.                                    *)
ImageIsExact == Settled => \A i \in 0 .. Last - 1 : image[i].occ = buf[Next1(i)]

(* Packets can fly over: a router that sees its downstream router on, has  *)
(* every slot of its buffer back and sends no packet can take the VC.      *)
VcComesBack ==
  Settled => \A i \in 0 .. Last - 1 :
    power[i] \in Idle /\ left[i] = 0 /\ image[i].occ = 0 => ~image[i].inUse
=============================================================================
