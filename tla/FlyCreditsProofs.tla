-------------------------- MODULE FlyCreditsProofs --------------------------
(***************************************************************************)
(* Proofs about flow control along a row of FLOVRouters, for rows of any   *)
(* length, packets of any lengths, any number of switches and of packets,  *)
(* and buffers of up to 13 slots: no error of Buffer or BufferState        *)
(* occurs, no slot is lost or invented, and the VC comes back.             *)
(*                                                                         *)
(* The inductive invariant has four parts: what holds at the ends of the   *)
(* row and of routers that are off (Rest), the stage of the change of      *)
(* state that is under way (Handshake), the slots of every link (SlotsOK)  *)
(* and the packets on it (PacketsOK).  The stage also says for how many    *)
(* cycles a router that went off has been handing over its free slots      *)
(* (Cycles): the next change takes so long to reach its end that a buffer  *)
(* of up to 13 slots is handed over by then.                               *)
(***************************************************************************)
EXTENDS FlyCredits, WellFoundedInduction, TLAPS

Link == 0 .. Last - 1

-----------------------------------------------------------------------------
(* What is under way on the link from i to i + 1.  What is at the output   *)
(* of a channel counts until it has been read: flits and credits until     *)
(* Evaluate, announcements and answers until ReadInputs.                   *)

Bit(b) == IF b THEN 1 ELSE 0

Flit1(i) == IF phase = "write" THEN NoFlit ELSE flitIn[i]
Flits(i) == Bit(Flit1(i) # NoFlit) + Bit(flit[i] # NoFlit) + Bit(flitOut[i] # NoFlit) + Bit(xbar[i] # NoFlit)

Cred1(d) == phase # "write" /\ d \in credIn
Creds(d) == Bit(Cred1(d)) + Bit(d \in cred) + Bit(d \in credOut)

Live(d, src) == \/ annOut[d].src = src
                \/ ann[d].src = src
                \/ phase = "read" /\ annIn[d].src = src

(* The credits of d that follow its announcement. *)
Behind(d) ==
  Bit(d \in credOut)
    + (IF annOut[d] # NoAnn THEN 0 ELSE Bit(d \in cred)
    + (IF ann[d] # NoAnn THEN 0 ELSE Bit(Cred1(d))))

-----------------------------------------------------------------------------
(* Slots.                                                                  *)

(* The slots that router d answers for: those in use of its own buffer, or *)
(* of the buffer its image stands for and those not yet handed over.       *)
Use(d) == IF power[d] \in Idle THEN buf[d] ELSE image[d].occ + counter[d]

(* Slots in use, in the eyes of i, are in use, or a flit or a credit is    *)
(* under way.  While i has yet to learn that i + 1 went off it does not    *)
(* count the buffer beyond; while it has yet to learn that a router came   *)
(* on, it counts slots that nobody uses any more.                          *)
SlotsOK(i) ==
  LET d == i + 1 IN
    /\ image[i].occ <= Size
    /\ ~Live(d, "on") => image[i].occ + (IF Live(d, "off") THEN Size ELSE 0)
                           = Use(d) + Flits(i) + Creds(d)
    /\ Live(d, "off") => image[i].occ + Behind(d) = Creds(d)
    /\ Live(d, "on")  => Use(d) = 0 /\ Behind(d) = 0 /\ Creds(d) <= image[i].occ

-----------------------------------------------------------------------------
(* Packets.                                                                *)

(* The head of a packet has left i, the tail has not. *)
Open(i) ==
  IF power[i] \in Idle THEN left[i] > 0 /\ ~AtHead(i) ELSE image[i].inUse /\ ~image[i].tail

(* f may come next when a packet is open or not, and what is open then.    *)
Fits(f, open)      == f # NoFlit => (f.head <=> ~open)
OpenAfter(f, open) == IF f = NoFlit THEN open ELSE ~f.tail

Open1(i) == OpenAfter(Flit1(i), Open(i + 1))
Open2(i) == OpenAfter(flit[i], Open1(i))
Open3(i) == OpenAfter(flitOut[i], Open2(i))

(* The flits on the way to a router that is off are packets, in order.     *)
InOrder(i) ==
  /\ Fits(Flit1(i), Open(i + 1)) /\ Fits(flit[i], Open1(i))
  /\ Fits(flitOut[i], Open2(i))  /\ Fits(xbar[i], Open3(i))
  /\ OpenAfter(xbar[i], Open3(i)) <=> Open(i)

(* If the VC waits for the credit of the tail, a head flit goes to an      *)
(* empty buffer.                                                           *)
Alone(i) ==
  /\ Flit1(i).head   => image[i].occ = Flits(i)
  /\ flit[i].head    => image[i].occ = Bit(flit[i] # NoFlit) + Bit(flitOut[i] # NoFlit) + Bit(xbar[i] # NoFlit)
  /\ flitOut[i].head => image[i].occ = Bit(flitOut[i] # NoFlit) + Bit(xbar[i] # NoFlit)
  /\ xbar[i].head    => image[i].occ = 1
  /\ left[i] > 0 /\ AtHead(i) => image[i].occ = 0

Held(i) == image[i].inUse /\ image[i].tail

(* Nothing is under way from i, and nothing will be while the VC is held.  *)
Hush(i) == Flits(i) = 0 /\ left[i] = 0 /\ ~Open(i)

PacketsOK(i) ==
  /\ left[i] > 0 => image[i].inUse /\ ~image[i].tail
  /\ power[i] \in Idle /\ left[i] = 0 /\ image[i].inUse => image[i].tail
  /\ WaitForTail =>
       /\ image[i].occ > 0 => image[i].inUse
       /\ Held(i) => image[i].occ > 0
       /\ Alone(i)
  /\ power[i + 1] \in Bypassed => InOrder(i)
  /\ ~WaitForTail /\ Held(i) => Flits(i) = 0
  /\ ~WaitForTail /\ power[i + 1] \in Bypassed /\ Held(i + 1) => Held(i) \/ Live(i + 1, "off")
  /\ power[i + 1] \in Bypassed /\ counter[i + 1] > 0 =>
       Live(i + 1, "off") \/ (Held(i) /\ Hush(i))
  /\ power[i + 1] \in Bypassed /\ Live(i + 1, "on") => ~image[i + 1].inUse

-----------------------------------------------------------------------------
(* The handshake.                                                          *)

(* The only announcement under way is a, sent by j and now at slot. *)
OnlyAnn(j, slot, a) ==
  /\ annOut = [i \in Pos |-> IF slot = "out" /\ i = j THEN a ELSE NoAnn]
  /\ ann = [i \in Pos |-> IF slot = "wire" /\ i = j THEN a ELSE NoAnn]
  /\ phase = "read" => annIn = [i \in Pos |-> IF slot = "in" /\ i = j THEN a ELSE NoAnn]
  /\ slot = "out" => phase # "read"
  /\ slot = "in" => phase = "read"
NoAnns == OnlyAnn(0, "none", NoAnn)

OnlyAns(j, slot) ==
  /\ ansOut = IF slot = "out" THEN {j} ELSE {}
  /\ ans = IF slot = "wire" THEN {j} ELSE {}
  /\ phase = "read" => ansIn = IF slot = "in" THEN {j} ELSE {}
  /\ slot = "out" => phase # "read"
  /\ slot = "in" => phase = "read"
NoAnswer == OnlyAns(0, "none")

Slot == {"out", "wire", "in"}

(* Only router c is neither on nor off. *)
Only(c, s) == power[c] = s /\ \A i \in Pos \ {c} : power[i] \in {"on", "off"}
Steady     == \A i \in Pos : power[i] \in {"on", "off"}

(* The routers from u to c - 1 take the next one for s. *)
Seen(u, c, s) == down = [i \in Pos |-> IF i \in u .. c - 1 THEN s ELSE IF i = Last THEN "off" ELSE "on"]

(* u is the nearest router West of c that is not off. *)
Beyond(u, c) == power[u] = "on" /\ \A i \in u + 1 .. c - 1 : power[i] = "off"

(* n cycles at least have passed since m went off, while it still has      *)
(* slots to hand over.                                                     *)
Cycles(m, n) ==
  power[m] \in Bypassed /\ counter[m] > 0 =>
    image[m].occ + counter[m] + n + Bit(phase = "write") <= Size

Delay(slot) == CASE slot = "out" -> 0 [] slot = "wire" -> 1 [] slot = "in" -> 2

Still ==
  /\ Steady /\ NoAnns /\ NoAnswer /\ tag = {} /\ sent = {} /\ Seen(0, 0, "on")
  /\ \A m \in Pos : Cycles(m, IF \A i \in Pos : annIn[i] = NoAnn THEN 3 ELSE 2)

Asking(c, s, j, slot) ==
  /\ Only(c, s) /\ \A i \in j .. c - 1 : power[i] = "off"
  /\ OnlyAnn(j, slot, [src |-> s, new |-> s]) /\ NoAnswer
  /\ tag = {} /\ sent = {} /\ Seen(j, c, s)
  /\ \A m \in Pos : Cycles(m, CASE m < j -> 3 + Delay(slot)
                                [] m \in j .. c - 1 -> 5 + Delay(slot)
                                [] m >= c -> 3)

Waiting(c, s, u) ==
  /\ Only(c, s) /\ Beyond(u, c) /\ NoAnns /\ NoAnswer
  /\ tag = {} /\ sent = {} /\ Seen(u, c, s)
  /\ \A m \in Pos : Cycles(m, IF m \in u + 1 .. c - 1 THEN 7 ELSE 3)

Answering(c, s, u, j, slot) ==
  /\ Only(c, s) /\ Beyond(u, c) /\ NoAnns /\ OnlyAns(j, slot)
  /\ tag = {} /\ sent = {u} /\ Seen(u, c, s)
  /\ \A i \in u .. j - 1 : Hush(i)
  /\ left[j] = 0 /\ ~Open(j) /\ xbar[j] = NoFlit /\ flitOut[j] = NoFlit
  /\ slot \in {"wire", "in"} => flit[j] = NoFlit
  /\ slot = "in" => flitIn[j] = NoFlit
  /\ \A m \in Pos : Cycles(m, CASE m \in u + 1 .. j -> 9 + Delay(slot)
                                [] m \in j + 1 .. c - 1 -> 7 + Delay(slot)
                                [] m \notin u + 1 .. c - 1 -> 3)

Agreed(c, s, u) ==
  /\ Only(c, s) /\ Beyond(u, c) /\ NoAnns /\ NoAnswer
  /\ tag = {c} /\ sent = {u} /\ Seen(u, c, s)
  /\ \A i \in u .. c - 1 : Hush(i)
  /\ \A m \in Pos : Cycles(m, IF m \in u + 1 .. c - 1 THEN 11 ELSE 3)

Telling(c, s, u, j, slot) ==
  /\ Steady /\ Beyond(u, c) /\ power[c] = IF s = "draining" THEN "off" ELSE "on"
  /\ OnlyAnn(j, slot, [src |-> power[c], new |-> "on"]) /\ NoAnswer
  /\ tag = {} /\ sent = {u} /\ Seen(u, j, s)
  /\ \A i \in u .. c - 1 : Hush(i)
  /\ \A m \in Pos : Cycles(m, IF m \in u + 1 .. j - 1 THEN 11 + Delay(slot) ELSE Delay(slot))

Handshake ==
  \/ Still
  \/ \E c \in Middle, s \in {"draining", "wakeup"} :
       \/ \E j \in 1 .. c, slot \in Slot : Asking(c, s, j, slot)
       \/ \E u \in 0 .. c - 1 :
            \/ Waiting(c, s, u)
            \/ \E j \in u .. c - 1, slot \in Slot : Answering(c, s, u, j, slot)
            \/ Agreed(c, s, u)
            \/ \E j \in u + 1 .. c, slot \in Slot : Telling(c, s, u, j, slot)

(* What a router off, and what either end of the row never has. *)
Rest ==
  /\ phase # "write" => flitOut = [i \in Pos |-> NoFlit] /\ credOut = {}
  /\ phase = "read" => annOut = [i \in Pos |-> NoAnn] /\ ansOut = {}
  /\ power[0] = "on" /\ power[Last] = "on" /\ buf[0] = 0 /\ left[Last] = 0
  /\ \A i \in Pos : power[i] \in Bypassed => left[i] = 0 /\ xbar[i] = NoFlit /\ buf[i] = 0

Inv ==
  /\ TypeOK /\ Rest /\ Handshake
  /\ \A i \in Link : SlotsOK(i) /\ PacketsOK(i)

-----------------------------------------------------------------------------
(* Types. *)

LEMMA Typed ==
  ASSUME TypeOK, NEW i \in Pos
  PROVE  /\ power[i] \in PowerState /\ down[i] \in PowerState
         /\ image[i] = [occ |-> image[i].occ, inUse |-> image[i].inUse, tail |-> image[i].tail]
         /\ image[i].occ \in Nat /\ image[i].occ <= 2 * Size
         /\ image[i].inUse \in BOOLEAN /\ image[i].tail \in BOOLEAN
         /\ counter[i] \in Nat /\ counter[i] <= Size
         /\ left[i] \in Nat /\ left[i] <= PacketSize[i] /\ PacketSize[i] \in Nat \ {0}
         /\ buf[i] \in Nat /\ buf[i] <= Size
         /\ \A f \in {xbar[i], flitOut[i], flit[i], flitIn[i]} : f \in Flit \cup {NoFlit}
         /\ \A a \in {annOut[i], ann[i], annIn[i]} : a \in Announcement \cup {NoAnn}
<1>1. Size \in Nat /\ PacketSize[i] \in Nat \ {0}
  <2>1. PacketSize \in [Pos -> Nat \ {0}]
    BY FlyCreditsAssumption DEF Pos
  <2> QED
    BY <2>1, FlyCreditsAssumption
<1>2. power[i] \in PowerState /\ down[i] \in PowerState
  BY DEF TypeOK
<1>3. /\ image[i] = [occ |-> image[i].occ, inUse |-> image[i].inUse, tail |-> image[i].tail]
      /\ image[i].occ \in Nat /\ image[i].occ <= 2 * Size
      /\ image[i].inUse \in BOOLEAN /\ image[i].tail \in BOOLEAN
  <2>1. image[i] \in [occ : 0 .. 2 * Size, inUse : BOOLEAN, tail : BOOLEAN]
    BY DEF TypeOK
  <2> QED
    BY <1>1, <2>1
<1>4. counter[i] \in Nat /\ counter[i] <= Size /\ buf[i] \in Nat /\ buf[i] <= Size
  <2>1. counter[i] \in 0 .. Size /\ buf[i] \in 0 .. Size
    BY DEF TypeOK
  <2> QED
    BY <1>1, <2>1
<1>5. left[i] \in Nat /\ left[i] <= PacketSize[i]
  <2>1. left[i] \in 0 .. PacketSize[i]
    BY DEF TypeOK
  <2> QED
    BY <1>1, <2>1
<1>6. \A f \in {xbar[i], flitOut[i], flit[i], flitIn[i]} : f \in Flit \cup {NoFlit}
  BY DEF TypeOK
<1>7. \A a \in {annOut[i], ann[i], annIn[i]} : a \in Announcement \cup {NoAnn}
  BY DEF TypeOK
<1> QED
  BY <1>1, <1>2, <1>3, <1>4, <1>5, <1>6, <1>7

LEMMA FlitType ==
  /\ \A f \in Flit : f # NoFlit /\ f.head \in BOOLEAN /\ f.tail \in BOOLEAN
  /\ ~NoFlit.head /\ ~NoFlit.tail
<1>1. \A f \in Flit : f.none = FALSE /\ f.head \in BOOLEAN /\ f.tail \in BOOLEAN
  BY DEF Flit
<1>2. NoFlit.none = TRUE /\ ~NoFlit.head /\ ~NoFlit.tail
  BY DEF NoFlit
<1> QED
  BY <1>1, <1>2

LEMMA AnnType ==
  /\ \A a \in Announcement : a # NoAnn /\ a.src \in PowerState /\ a.new \in PowerState
  /\ NoAnn.src = "none"
  BY DEF Announcement, NoAnn, PowerState

LEMMA PosType ==
  /\ Last \in Nat /\ Last >= 1 /\ Size \in Nat /\ Size >= 1
  /\ \A i \in Pos : i \in Int /\ i \in Nat
  /\ \A i \in Link : i \in Pos /\ i + 1 \in Pos
  /\ Middle \subseteq Link /\ 0 \in Pos /\ Last \in Pos
  BY FlyCreditsAssumption DEF Pos, Link, Middle

LEMMA StretchType ==
  ASSUME NEW c \in Middle
  PROVE  /\ c \in Nat /\ c >= 1 /\ c < Last /\ c \in Pos
         /\ \A i \in 0 .. c : i \in Int /\ i \in Pos /\ i \in Link /\ i + 1 \in Pos
         /\ \A u \in 0 .. c : \A i \in u .. c : i \in 0 .. c
         /\ \A u \in 0 .. c : \A i \in u .. c - 1 : i \in 0 .. c /\ i + 1 \in 1 .. c
  BY FlyCreditsAssumption DEF Pos, Link, Middle

LEMMA BitType == \A b \in BOOLEAN : Bit(b) \in {0, 1} /\ (Bit(b) = 0 <=> ~b) /\ (Bit(b) = 1 <=> b)
  BY DEF Bit

LEMMA Counts ==
  /\ \A i : Flits(i) \in 0 .. 4
  /\ \A i : Creds(i) \in 0 .. 3 /\ Behind(i) \in 0 .. 3
  /\ \A i : Flits(i) = 0 <=> /\ Flit1(i) = NoFlit /\ flit[i] = NoFlit
                           /\ flitOut[i] = NoFlit /\ xbar[i] = NoFlit
  BY DEF Flits, Creds, Behind, Bit, Cred1

-----------------------------------------------------------------------------
(* WriteOutputs moves everything on by one place.                          *)

LEMMA WriteShifts ==
  ASSUME Inv, WriteOutputs, NEW i \in Pos
  PROVE  /\ image'[i] = image[i] /\ counter'[i] = counter[i] /\ left'[i] = left[i]
         /\ power'[i] = power[i] /\ xbar'[i] = xbar[i] /\ buf'[i] = buf[i]
         /\ Flit1(i) = NoFlit /\ Flit1(i)' = flit[i] /\ flit'[i] = flitOut[i] /\ flitOut'[i] = NoFlit
         /\ Flits(i)' = Flits(i) /\ Creds(i)' = Creds(i) /\ Behind(i)' = Behind(i)
         /\ Use(i)' = Use(i) /\ (Open(i)' <=> Open(i)) /\ (AtHead(i)' <=> AtHead(i))
         /\ (Held(i)' <=> Held(i)) /\ (Hush(i)' <=> Hush(i))
         /\ \A src \in PowerState : Live(i, src)' <=> Live(i, src)
<1>1. /\ phase = "write" /\ phase' = "read"
      /\ flit' = flitOut /\ flitIn' = flit /\ flitOut' = [k \in Pos |-> NoFlit]
      /\ cred' = credOut /\ credIn' = cred /\ credOut' = {}
      /\ ann' = annOut /\ annIn' = ann /\ annOut' = [k \in Pos |-> NoAnn]
      /\ UNCHANGED <<power, image, counter, left, buf, xbar>>
  BY DEF WriteOutputs, state, credits, flits
<1>2. /\ Flit1(i) = NoFlit /\ Flit1(i)' = flit[i] /\ flit'[i] = flitOut[i] /\ flitOut'[i] = NoFlit
      /\ xbar'[i] = xbar[i]
  BY <1>1 DEF Flit1
<1>3. Flits(i)' = Flits(i)
  BY <1>1, <1>2 DEF Flits, Bit
<1>4. Creds(i)' = Creds(i)
  BY <1>1 DEF Creds, Cred1, Bit
<1>5. annOut'[i] = NoAnn /\ ann'[i] = annOut[i] /\ annIn'[i] = ann[i]
  BY <1>1
<1>6. Behind(i)' = Behind(i)
  BY <1>1, <1>5 DEF Behind, Cred1, Bit
<1>7. \A src \in PowerState : Live(i, src)' <=> Live(i, src)
  BY <1>1, <1>5, AnnType DEF Live, PowerState
<1>8. Use(i)' = Use(i) /\ (AtHead(i)' <=> AtHead(i)) /\ (Held(i)' <=> Held(i))
  BY <1>1 DEF Use, AtHead, Held
<1>9. Open(i)' <=> Open(i)
  BY <1>1, <1>8 DEF Open
<1>10. Hush(i)' <=> Hush(i)
  BY <1>1, <1>3, <1>9 DEF Hush
<1> QED
  BY <1>1, <1>2, <1>3, <1>4, <1>6, <1>7, <1>8, <1>9, <1>10

LEMMA WriteLinks ==
  ASSUME Inv, WriteOutputs, NEW i \in Link
  PROVE  SlotsOK(i)' /\ PacketsOK(i)'
<1>1. i \in Pos /\ i + 1 \in Pos /\ {"on", "off"} \subseteq PowerState
  BY PosType DEF PowerState
<1>2. SlotsOK(i) /\ PacketsOK(i)
  BY DEF Inv
<1>3. SlotsOK(i)'
  <2>1. /\ image'[i] = image[i] /\ Flits(i)' = Flits(i)
    BY <1>1, WriteShifts
  <2>2. /\ Creds(i + 1)' = Creds(i + 1) /\ Behind(i + 1)' = Behind(i + 1)
        /\ Use(i + 1)' = Use(i + 1)
        /\ \A src \in PowerState : Live(i + 1, src)' <=> Live(i + 1, src)
    BY <1>1, WriteShifts
  <2> QED
    BY <1>1, <1>2, <2>1, <2>2 DEF SlotsOK
<1>4. InOrder(i) => InOrder(i)'
  <2>1. /\ Flit1(i) = NoFlit /\ Flit1(i)' = flit[i] /\ flit'[i] = flitOut[i]
        /\ flitOut'[i] = NoFlit /\ xbar'[i] = xbar[i]
        /\ (Open(i)' <=> Open(i)) /\ (Open(i + 1)' <=> Open(i + 1))
    BY <1>1, WriteShifts
  <2>2. Open1(i) <=> Open(i + 1)
    BY <2>1 DEF Open1, OpenAfter
  <2>3. (Open1(i)' <=> Open2(i)) /\ (Open2(i)' <=> Open3(i)) /\ (Open3(i)' <=> Open3(i))
    BY <2>1, <2>2 DEF Open1, Open2, Open3, OpenAfter
  <2> QED
    BY <2>1, <2>2, <2>3 DEF InOrder, Fits, OpenAfter
<1>5. Alone(i) => Alone(i)'
  <2>1. /\ Flit1(i) = NoFlit /\ Flit1(i)' = flit[i] /\ flit'[i] = flitOut[i]
        /\ flitOut'[i] = NoFlit /\ xbar'[i] = xbar[i]
        /\ image'[i] = image[i] /\ left'[i] = left[i] /\ (AtHead(i)' <=> AtHead(i))
    BY <1>1, WriteShifts
  <2> QED
    BY <2>1, FlitType DEF Alone, Flits, Bit
<1>6. PacketsOK(i)'
  <2>1. /\ image'[i] = image[i] /\ left'[i] = left[i] /\ power'[i] = power[i]
        /\ Flits(i)' = Flits(i) /\ (Held(i)' <=> Held(i)) /\ (Hush(i)' <=> Hush(i))
    BY <1>1, WriteShifts
  <2>2. /\ power'[i + 1] = power[i + 1] /\ counter'[i + 1] = counter[i + 1] /\ image'[i + 1] = image[i + 1]
        /\ (Held(i + 1)' <=> Held(i + 1))
        /\ \A src \in PowerState : Live(i + 1, src)' <=> Live(i + 1, src)
    BY <1>1, WriteShifts
  <2> QED
    BY <1>1, <1>2, <1>4, <1>5, <2>1, <2>2 DEF PacketsOK
<1> QED
  BY <1>3, <1>6

Later(slot) == IF slot = "out" THEN "wire" ELSE "in"

LEMMA AnnShifts ==
  ASSUME WriteOutputs, NEW j, NEW slot, NEW a, OnlyAnn(j, slot, a)
  PROVE  IF slot \in Slot THEN slot # "in" /\ OnlyAnn(j, Later(slot), a)'
         ELSE OnlyAnn(j, slot, a)' /\ annIn' = [i \in Pos |-> NoAnn]
<1>1. /\ phase = "write" /\ phase' = "read"
      /\ ann' = annOut /\ annIn' = ann /\ annOut' = [k \in Pos |-> NoAnn]
  BY DEF WriteOutputs
<1>2. CASE slot \in Slot
  BY <1>1, <1>2 DEF OnlyAnn, Later, Slot
<1>3. CASE slot \notin Slot
  BY <1>1, <1>3 DEF OnlyAnn, Slot
<1> QED
  BY <1>2, <1>3

LEMMA AnsShifts ==
  ASSUME WriteOutputs, NEW j, NEW slot, OnlyAns(j, slot)
  PROVE  IF slot \in Slot THEN slot # "in" /\ OnlyAns(j, Later(slot))' ELSE OnlyAns(j, slot)'
<1>1. /\ phase = "write" /\ phase' = "read"
      /\ ans' = ansOut /\ ansIn' = ans /\ ansOut' = {}
  BY DEF WriteOutputs
<1> QED
  BY <1>1 DEF OnlyAns, Later, Slot

(* Every part of a stage that has nothing to do with a channel stays.      *)
LEMMA WriteKeeps ==
  ASSUME Inv, WriteOutputs
  PROVE  /\ power' = power /\ down' = down /\ sent' = sent /\ tag' = tag /\ phase' = "read"
         /\ \A c, s : Only(c, s) => Only(c, s)'
         /\ Steady => Steady'
         /\ \A u, c, s : Seen(u, c, s) => Seen(u, c, s)'
         /\ \A u, c : Beyond(u, c) => Beyond(u, c)'
         /\ NoAnns => NoAnns' /\ annIn' = [i \in Pos |-> NoAnn]
         /\ NoAnswer => NoAnswer'
         /\ \A m \in Pos, n \in Nat : Cycles(m, n) => Cycles(m, n)' /\ Cycles(m, n + 1)'
         /\ \A i \in Pos : Hush(i) => Hush(i)'
<1>1. /\ UNCHANGED <<power, down, sent, tag, image, counter>>
      /\ phase = "write" /\ phase' = "read"
  BY DEF WriteOutputs, state, credits
<1>2. NoAnns => NoAnns' /\ annIn' = [i \in Pos |-> NoAnn]
  BY AnnShifts DEF NoAnns, Slot
<1>3. NoAnswer => NoAnswer'
  BY AnsShifts DEF NoAnswer, Slot
<1>4. ASSUME NEW m \in Pos, NEW n \in Nat, Cycles(m, n) PROVE Cycles(m, n)' /\ Cycles(m, n + 1)'
  <2>1. image[m].occ \in Nat /\ counter[m] \in Nat /\ Size \in Nat
    BY Typed, PosType DEF Inv
  <2> QED
    BY <1>1, <1>4, <2>1 DEF Cycles, Bit
<1>5. \A i \in Pos : Hush(i) => Hush(i)'
  BY WriteShifts
<1> QED
  BY <1>1, <1>2, <1>3, <1>4, <1>5 DEF Only, Steady, Seen, Beyond

LEMMA DelayType == \A slot \in Slot : Delay(slot) \in 0 .. 2 /\ (slot # "in" => Delay(Later(slot)) = Delay(slot) + 1)
  BY DEF Slot, Delay, Later

LEMMA LaterType == \A slot \in Slot : Later(slot) \in Slot
  BY DEF Slot, Later

LEMMA WriteStill ==
  ASSUME Inv, WriteOutputs, Still
  PROVE  Handshake'
<1>1. /\ Steady' /\ NoAnns' /\ annIn' = [i \in Pos |-> NoAnn] /\ NoAnswer'
      /\ tag' = {} /\ sent' = {} /\ Seen(0, 0, "on")'
  BY WriteKeeps DEF Still
<1>2. ASSUME NEW m \in Pos
      PROVE  Cycles(m, IF \A i \in Pos : annIn[i] = NoAnn THEN 3 ELSE 2)'
  <2>1. Cycles(m, 2) \/ Cycles(m, 3)
    BY DEF Still
  <2>2. Cycles(m, 3)'
    <3>1. 2 + 1 = 3 /\ 2 \in Nat /\ 3 \in Nat
      OBVIOUS
    <3> QED
      BY <2>1, <3>1, WriteKeeps
  <2> QED
    BY <1>1, <2>2
<1> QED
  BY <1>1, <1>2 DEF Handshake, Still

LEMMA WriteAsking ==
  ASSUME Inv, WriteOutputs, NEW c \in Middle, NEW s \in {"draining", "wakeup"},
         NEW j \in 1 .. c, NEW slot \in Slot, Asking(c, s, j, slot)
  PROVE  Handshake'
<1>1. slot # "in" /\ OnlyAnn(j, Later(slot), [src |-> s, new |-> s])'
  BY AnnShifts DEF Asking
<1>2. /\ Only(c, s)' /\ (\A i \in j .. c - 1 : power'[i] = "off") /\ NoAnswer'
      /\ tag' = {} /\ sent' = {} /\ Seen(j, c, s)'
  BY WriteKeeps DEF Asking
<1>3. ASSUME NEW m \in Pos
      PROVE  Cycles(m, CASE m < j -> 3 + Delay(Later(slot))
                         [] m \in j .. c - 1 -> 5 + Delay(Later(slot))
                         [] m >= c -> 3)'
  <2>1. Delay(slot) \in Nat /\ Delay(Later(slot)) = Delay(slot) + 1 /\ m \in Int /\ c \in Int
    BY <1>1, DelayType, PosType DEF Middle
  <2>2. CASE m < j
    <3>1. Cycles(m, 3 + Delay(slot))
      BY <2>1, <2>2 DEF Asking
    <3>2. Cycles(m, (3 + Delay(slot)) + 1)' /\ 3 + Delay(Later(slot)) = (3 + Delay(slot)) + 1
      BY <2>1, <3>1, WriteKeeps
    <3> QED
      BY <2>1, <2>2, <3>2
  <2>3. CASE m \in j .. c - 1
    <3>1. Cycles(m, 5 + Delay(slot))
      BY <2>1, <2>3 DEF Asking
    <3>2. Cycles(m, (5 + Delay(slot)) + 1)' /\ 5 + Delay(Later(slot)) = (5 + Delay(slot)) + 1
      BY <2>1, <3>1, WriteKeeps
    <3> QED
      BY <2>1, <2>3, <3>2
  <2>4. CASE m >= c
    <3>1. Cycles(m, 3)
      BY <2>1, <2>4 DEF Asking
    <3> QED
      BY <2>1, <2>4, <3>1, WriteKeeps
  <2> QED
    BY <2>1, <2>2, <2>3, <2>4
<1>4. Asking(c, s, j, Later(slot))'
  BY <1>1, <1>2, <1>3 DEF Asking
<1> QED
  BY <1>4, LaterType DEF Handshake

LEMMA WriteWaiting ==
  ASSUME Inv, WriteOutputs, NEW c \in Middle, NEW s \in {"draining", "wakeup"},
         NEW u \in 0 .. c - 1, Waiting(c, s, u)
  PROVE  Handshake'
<1>1. /\ Only(c, s)' /\ Beyond(u, c)' /\ NoAnns' /\ NoAnswer'
      /\ tag' = {} /\ sent' = {} /\ Seen(u, c, s)'
  BY WriteKeeps DEF Waiting
<1>2. \A m \in Pos : Cycles(m, IF m \in u + 1 .. c - 1 THEN 7 ELSE 3)'
  BY WriteKeeps DEF Waiting
<1> QED
  BY <1>1, <1>2 DEF Handshake, Waiting

LEMMA WriteAnswering ==
  ASSUME Inv, WriteOutputs, NEW c \in Middle, NEW s \in {"draining", "wakeup"},
         NEW u \in 0 .. c - 1, NEW j \in u .. c - 1, NEW slot \in Slot, Answering(c, s, u, j, slot)
  PROVE  Handshake'
<1>1. slot # "in" /\ OnlyAns(j, Later(slot))'
  BY AnsShifts DEF Answering
<1>2. /\ Only(c, s)' /\ Beyond(u, c)' /\ NoAnns'
      /\ tag' = {} /\ sent' = {u} /\ Seen(u, c, s)'
  BY WriteKeeps DEF Answering
<1>3. \A i \in u .. j - 1 : i \in Pos
  BY StretchType
<1>4. \A i \in u .. j - 1 : Hush(i)'
  BY <1>3, WriteKeeps DEF Answering
<1>5. j \in Pos /\ u \in Int /\ j \in Int /\ c \in Int
  BY StretchType
<1>6. /\ left'[j] = 0 /\ ~Open(j)' /\ xbar'[j] = NoFlit /\ flitOut'[j] = NoFlit
      /\ Later(slot) \in {"wire", "in"} => flit'[j] = NoFlit
      /\ Later(slot) = "in" => flitIn'[j] = NoFlit
  <2>1. /\ left'[j] = left[j] /\ (Open(j)' <=> Open(j)) /\ xbar'[j] = xbar[j]
        /\ flit'[j] = flitOut[j] /\ flitOut'[j] = NoFlit
    BY <1>5, WriteShifts
  <2>2. flitIn'[j] = flit[j]
    BY DEF WriteOutputs
  <2> QED
    BY <1>1, <2>1, <2>2 DEF Answering, Later, Slot
<1>7. ASSUME NEW m \in Pos
      PROVE  Cycles(m, CASE m \in u + 1 .. j -> 9 + Delay(Later(slot))
                         [] m \in j + 1 .. c - 1 -> 7 + Delay(Later(slot))
                         [] m \notin u + 1 .. c - 1 -> 3)'
  <2>1. Delay(slot) \in Nat /\ Delay(Later(slot)) = Delay(slot) + 1 /\ m \in Int
    BY <1>1, DelayType, PosType
  <2>2. CASE m \in u + 1 .. j
    <3>1. Cycles(m, 9 + Delay(slot))
      BY <1>5, <2>1, <2>2 DEF Answering
    <3>2. Cycles(m, (9 + Delay(slot)) + 1)' /\ 9 + Delay(Later(slot)) = (9 + Delay(slot)) + 1
      BY <2>1, <3>1, WriteKeeps
    <3> QED
      BY <1>5, <2>1, <2>2, <3>2
  <2>3. CASE m \in j + 1 .. c - 1
    <3>1. Cycles(m, 7 + Delay(slot))
      BY <1>5, <2>1, <2>3 DEF Answering
    <3>2. Cycles(m, (7 + Delay(slot)) + 1)' /\ 7 + Delay(Later(slot)) = (7 + Delay(slot)) + 1
      BY <2>1, <3>1, WriteKeeps
    <3> QED
      BY <1>5, <2>1, <2>3, <3>2
  <2>4. CASE m \notin u + 1 .. c - 1
    <3>1. Cycles(m, 3)
      BY <1>5, <2>1, <2>4 DEF Answering
    <3>2. m \notin u + 1 .. j /\ m \notin j + 1 .. c - 1
      BY <1>5, <2>1, <2>4
    <3>3. Cycles(m, 3)'
      BY <3>1, WriteKeeps
    <3> QED
      BY <2>4, <3>2, <3>3
  <2> QED
    BY <1>5, <2>1, <2>2, <2>3, <2>4
<1>8. Answering(c, s, u, j, Later(slot))'
  BY <1>1, <1>2, <1>4, <1>6, <1>7 DEF Answering
<1> QED
  BY <1>8, LaterType DEF Handshake

LEMMA WriteAgreed ==
  ASSUME Inv, WriteOutputs, NEW c \in Middle, NEW s \in {"draining", "wakeup"},
         NEW u \in 0 .. c - 1, Agreed(c, s, u)
  PROVE  Handshake'
<1>1. /\ Only(c, s)' /\ Beyond(u, c)' /\ NoAnns' /\ NoAnswer'
      /\ tag' = {c} /\ sent' = {u} /\ Seen(u, c, s)'
  BY WriteKeeps DEF Agreed
<1>2. \A m \in Pos : Cycles(m, IF m \in u + 1 .. c - 1 THEN 11 ELSE 3)'
  BY WriteKeeps DEF Agreed
<1>3. \A i \in u .. c - 1 : i \in Pos
  BY StretchType
<1>4. \A i \in u .. c - 1 : Hush(i)'
  BY <1>3, WriteKeeps DEF Agreed
<1> QED
  BY <1>1, <1>2, <1>4 DEF Handshake, Agreed

LEMMA WriteTelling ==
  ASSUME Inv, WriteOutputs, NEW c \in Middle, NEW s \in {"draining", "wakeup"},
         NEW u \in 0 .. c - 1, NEW j \in u + 1 .. c, NEW slot \in Slot, Telling(c, s, u, j, slot)
  PROVE  Handshake'
<1>1. power' = power
  BY WriteKeeps
<1>2. slot # "in" /\ OnlyAnn(j, Later(slot), [src |-> power[c], new |-> "on"])'
  <2> DEFINE a == [src |-> power[c], new |-> "on"]
  <2>1. OnlyAnn(j, slot, a) /\ a' = a
    BY <1>1 DEF Telling
  <2> HIDE DEF a
  <2>2. slot # "in" /\ annOut' = [i \in Pos |-> IF Later(slot) = "out" /\ i = j THEN a ELSE NoAnn]
        /\ ann' = [i \in Pos |-> IF Later(slot) = "wire" /\ i = j THEN a ELSE NoAnn]
        /\ annIn' = [i \in Pos |-> IF Later(slot) = "in" /\ i = j THEN a ELSE NoAnn]
        /\ phase' = "read" /\ Later(slot) # "out"
    BY <2>1 DEF OnlyAnn, Later, Slot, WriteOutputs
  <2>3. OnlyAnn(j, Later(slot), a)'
    BY <2>1, <2>2 DEF OnlyAnn
  <2> QED
    BY <2>2, <2>3 DEF a
<1>3. /\ Steady' /\ Beyond(u, c)' /\ power'[c] = (IF s = "draining" THEN "off" ELSE "on") /\ NoAnswer'
      /\ tag' = {} /\ sent' = {u} /\ Seen(u, j, s)'
  BY <1>1, WriteKeeps DEF Telling
<1>4. \A i \in u .. c - 1 : i \in Pos
  BY StretchType
<1>5. \A i \in u .. c - 1 : Hush(i)'
  BY <1>4, WriteKeeps DEF Telling
<1>6. ASSUME NEW m \in Pos
      PROVE  Cycles(m, IF m \in u + 1 .. j - 1 THEN 11 + Delay(Later(slot)) ELSE Delay(Later(slot)))'
  <2>1. Delay(slot) \in Nat /\ Delay(Later(slot)) = Delay(slot) + 1
    BY <1>2, DelayType
  <2>2. CASE m \in u + 1 .. j - 1
    <3>1. Cycles(m, 11 + Delay(slot))
      BY <2>2 DEF Telling
    <3>2. Cycles(m, (11 + Delay(slot)) + 1)' /\ 11 + Delay(Later(slot)) = (11 + Delay(slot)) + 1
      BY <2>1, <3>1, WriteKeeps
    <3> QED
      BY <2>2, <3>2
  <2>3. CASE m \notin u + 1 .. j - 1
    <3>1. Cycles(m, Delay(slot))
      BY <2>3 DEF Telling
    <3> QED
      BY <2>1, <2>3, <3>1, WriteKeeps
  <2> QED
    BY <2>2, <2>3
<1>7. Telling(c, s, u, j, Later(slot))'
  BY <1>1, <1>2, <1>3, <1>5, <1>6 DEF Telling
<1> QED
  BY <1>7, LaterType DEF Handshake

LEMMA WriteTypes ==
  ASSUME Inv, WriteOutputs
  PROVE  TypeOK' /\ Rest'
<1>1. TypeOK /\ Rest
  BY DEF Inv
<1>2. /\ phase' = "read"
      /\ flit' = flitOut /\ flitIn' = flit /\ flitOut' = [k \in Pos |-> NoFlit]
      /\ cred' = credOut /\ credIn' = cred /\ credOut' = {}
      /\ ann' = annOut /\ annIn' = ann /\ annOut' = [k \in Pos |-> NoAnn]
      /\ ans' = ansOut /\ ansIn' = ans /\ ansOut' = {}
      /\ UNCHANGED <<power, down, sent, tag, image, counter, left, buf, xbar>>
  BY DEF WriteOutputs, state, credits, flits
<1>3. TypeOK'
  BY <1>1, <1>2 DEF TypeOK
<1>4. Rest'
  BY <1>1, <1>2 DEF Rest
<1> QED
  BY <1>3, <1>4

LEMMA WriteStep ==
  ASSUME Inv, WriteOutputs
  PROVE  Inv'
<1>1. Handshake'
  <2>1. Handshake
    BY DEF Inv
  <2> QED
    BY <2>1, WriteStill, WriteAsking, WriteWaiting, WriteAnswering, WriteAgreed, WriteTelling DEF Handshake
<1>2. Link' = Link
  BY DEF Link
<1> QED
  BY <1>1, <1>2, WriteTypes, WriteLinks DEF Inv

-----------------------------------------------------------------------------
(* PowerStateEvaluate.                                                     *)

(* Between two Evaluates no flit or credit moves. *)
LEMMA NoFlitMoves ==
  ASSUME UNCHANGED <<flit, flitIn, flitOut, xbar, cred, credIn, credOut>>,
         phase # "write", phase' # "write", NEW i
  PROVE  /\ Flit1(i)' = Flit1(i) /\ Flits(i)' = Flits(i) /\ Creds(i)' = Creds(i)
         /\ flit'[i] = flit[i] /\ flitOut'[i] = flitOut[i] /\ xbar'[i] = xbar[i]
  BY DEF Flit1, Flits, Creds, Cred1, Bit

(* A link at whose ends nothing happens. *)
LEMMA LinkStays ==
  ASSUME UNCHANGED <<flit, flitIn, flitOut, xbar, cred, credIn, credOut, left, buf>>,
         phase # "write", phase' # "write", NEW i \in Link, SlotsOK(i), PacketsOK(i),
         \/ power[i] \in Idle <=> power'[i] \in Idle
         \/ ~Open(i) /\ ~Open(i)' /\ (image[i].inUse => image[i].tail),
         power[i + 1] \in Idle <=> power'[i + 1] \in Idle,
         {power[i], power[i + 1], power'[i], power'[i + 1]} \subseteq PowerState,
         image'[i] = image[i],
         power[i + 1] \in Idle \/ (image'[i + 1] = image[i + 1] /\ counter'[i + 1] = counter[i + 1]),
         ~Live(i + 1, "on"), ~Live(i + 1, "off"), ~Live(i + 1, "on")', ~Live(i + 1, "off")'
  PROVE  SlotsOK(i)' /\ PacketsOK(i)'
<1>1. /\ Flit1(i)' = Flit1(i) /\ Flits(i)' = Flits(i) /\ Creds(i + 1)' = Creds(i + 1)
      /\ flit'[i] = flit[i] /\ flitOut'[i] = flitOut[i] /\ xbar'[i] = xbar[i]
  BY NoFlitMoves
<1>2. (Held(i)' <=> Held(i)) /\ left'[i] = left[i] /\ left'[i + 1] = left[i + 1]
      /\ (AtHead(i)' <=> AtHead(i)) /\ (AtHead(i + 1)' <=> AtHead(i + 1))
  BY DEF Held, AtHead
<1>3. power'[i + 1] \in Bypassed => /\ power[i + 1] \notin Idle /\ counter'[i + 1] = counter[i + 1]
                                   /\ image'[i + 1] = image[i + 1] /\ (Held(i + 1)' <=> Held(i + 1))
  BY DEF Held, Bypassed, Idle
<1>4. (Open(i)' <=> Open(i)) /\ (Open(i + 1)' <=> Open(i + 1))
  BY <1>2 DEF Open
<1>5. Use(i + 1)' = Use(i + 1)
  BY DEF Use
<1>6. SlotsOK(i)'
  BY <1>1, <1>5 DEF SlotsOK
<1>7. power'[i + 1] \in Bypassed <=> power[i + 1] \in Bypassed
  BY DEF PowerState, Idle, Bypassed
<1>8. InOrder(i)' <=> InOrder(i)
  BY <1>1, <1>4 DEF InOrder, Fits, OpenAfter, Open1, Open2, Open3
<1>9. Alone(i)' <=> Alone(i)
  BY <1>1, <1>2 DEF Alone
<1>10. Hush(i)' <=> Hush(i)
  BY <1>1, <1>2, <1>4 DEF Hush
<1>11. PacketsOK(i)'
  BY <1>3, <1>1, <1>2, <1>7, <1>8, <1>9, <1>10 DEF PacketsOK
<1> QED
  BY <1>6, <1>11

LEMMA HushStays ==
  ASSUME UNCHANGED <<flit, flitIn, flitOut, xbar, cred, credIn, credOut, left>>,
         phase # "write", phase' # "write", NEW i, Hush(i),
         power[i] \in Idle <=> power'[i] \in Idle, image'[i] = image[i]
  PROVE  Hush(i)'
<1>1. Flits(i)' = Flits(i)
  BY NoFlitMoves
<1>2. AtHead(i)' <=> AtHead(i)
  BY DEF AtHead
<1> QED
  BY <1>1, <1>2 DEF Hush, Open

(* Where announcements of any kind are under way. *)
LEMMA NoAnnsLive ==
  ASSUME NEW i \in Pos, NoAnns, NEW src \in PowerState
  PROVE  ~Live(i, src)
<1>1. annOut[i] = NoAnn /\ ann[i] = NoAnn /\ (phase = "read" => annIn[i] = NoAnn)
  BY DEF NoAnns, OnlyAnn
<1>2. NoAnn.src # src
  BY AnnType DEF PowerState
<1> QED
  BY <1>1, <1>2 DEF Live

LEMMA OnlyAnnLive ==
  ASSUME NEW i \in Pos, NEW j \in Pos, NEW slot \in Slot, NEW a \in Announcement,
         OnlyAnn(j, slot, a), NEW src \in PowerState
  PROVE  Live(i, src) <=> i = j /\ src = a.src
<1>1. /\ annOut[i] = IF slot = "out" /\ i = j THEN a ELSE NoAnn
      /\ ann[i] = IF slot = "wire" /\ i = j THEN a ELSE NoAnn
      /\ phase = "read" => annIn[i] = IF slot = "in" /\ i = j THEN a ELSE NoAnn
      /\ slot = "in" => phase = "read"
  BY DEF OnlyAnn
<1>2. NoAnn.src # src
  BY AnnType DEF PowerState
<1> QED
  BY <1>1, <1>2 DEF Live, Slot

(* A step between two Evaluates which changes nothing but the handshake.   *)
LEMMA Unmoved ==
  ASSUME UNCHANGED <<power, image, counter, left, buf, xbar, flitOut, flit, flitIn,
                     credOut, cred, credIn, annOut, ann>>,
         phase # "write", phase' # "write", phase' # "read",
         phase = "read" => \A i \in Pos : annIn[i] = NoAnn
  PROVE  /\ \A i : (Open(i)' <=> Open(i)) /\ (Hush(i)' <=> Hush(i))
         /\ \A i, n : Cycles(i, n)' <=> Cycles(i, n)
         /\ \A i \in Link : SlotsOK(i) /\ PacketsOK(i) => SlotsOK(i)' /\ PacketsOK(i)'
<1>1. \A i : (Open(i)' <=> Open(i)) /\ (Hush(i)' <=> Hush(i))
  BY DEF Open, Hush, AtHead, Flits, Flit1, Bit
<1>2. \A i, n : Cycles(i, n)' <=> Cycles(i, n)
  BY DEF Cycles, Bit
<1>3. ASSUME NEW i \in Link, SlotsOK(i), PacketsOK(i) PROVE SlotsOK(i)' /\ PacketsOK(i)'
  <2>1. /\ Flit1(i)' = Flit1(i) /\ Flits(i)' = Flits(i) /\ Creds(i + 1)' = Creds(i + 1)
    BY NoFlitMoves
  <2>2. \A src \in PowerState : Live(i + 1, src)' <=> Live(i + 1, src)
    <3>1. NoAnn.src \notin PowerState
      BY AnnType DEF PowerState
    <3> QED
      BY <3>1, PosType DEF Live
  <2>3. {"on", "off"} \subseteq PowerState
    BY DEF PowerState
  <2>4. Behind(i + 1)' = Behind(i + 1) /\ Use(i + 1)' = Use(i + 1)
    BY DEF Behind, Use, Cred1, Bit
  <2>5. SlotsOK(i)'
    BY <1>3, <2>1, <2>2, <2>3, <2>4 DEF SlotsOK
  <2>6. (Held(i)' <=> Held(i)) /\ (Held(i + 1)' <=> Held(i + 1)) /\ (AtHead(i)' <=> AtHead(i))
    BY DEF Held, AtHead
  <2>7. (InOrder(i)' <=> InOrder(i)) /\ (Alone(i)' <=> Alone(i))
    BY <1>1, <2>1, <2>6 DEF InOrder, Alone, Fits, OpenAfter, Open1, Open2, Open3
  <2>8. PacketsOK(i)'
    BY <1>1, <1>3, <2>1, <2>2, <2>3, <2>6, <2>7 DEF PacketsOK
  <2> QED
    BY <2>5, <2>8
<1> QED
  BY <1>1, <1>2, <1>3

LEMMA PowerStays ==
  ASSUME Inv, PowerStateEvaluate, UNCHANGED <<power, tag, counter, annOut, switches>>
  PROVE  Inv'
<1>1. /\ phase = "power" /\ phase' = "eval"
      /\ UNCHANGED <<power, down, sent, tag, image, counter, left, buf, xbar, flitOut, flit, flitIn,
                     credOut, cred, credIn, annOut, ann, annIn, ansOut, ans, ansIn>>
  BY DEF PowerStateEvaluate, flits, channels
<1>2. TypeOK' /\ Rest'
  BY <1>1 DEF Inv, TypeOK, Rest
<1>3. \A i : (Open(i)' <=> Open(i)) /\ (Hush(i)' <=> Hush(i))
  BY <1>1, Unmoved
<1>4. \A i, n : Cycles(i, n)' <=> Cycles(i, n)
  BY <1>1, Unmoved
<1>5. \A j, slot, a : OnlyAnn(j, slot, a)' = OnlyAnn(j, slot, a)
  BY <1>1 DEF OnlyAnn
<1>6. \A j, slot : OnlyAns(j, slot)' = OnlyAns(j, slot)
  BY <1>1 DEF OnlyAns
<1>7. NoAnns' = NoAnns /\ NoAnswer' = NoAnswer
  BY <1>5, <1>6 DEF NoAnns, NoAnswer
<1>8. /\ \A c, s : Only(c, s)' = Only(c, s)
      /\ Steady' = Steady
      /\ \A u, c, s : Seen(u, c, s)' = Seen(u, c, s)
      /\ \A u, c : Beyond(u, c)' = Beyond(u, c)
  BY <1>1 DEF Only, Steady, Seen, Beyond
<1>9. Handshake'
  <2>1. Handshake
    BY DEF Inv
  <2>2. Still => Still'
    BY <1>1, <1>4, <1>7, <1>8 DEF Still
  <2>3. ASSUME NEW c \in Middle, NEW s \in {"draining", "wakeup"}
        PROVE /\ \A j \in 1 .. c, slot \in Slot : Asking(c, s, j, slot) => Asking(c, s, j, slot)'
              /\ \A u \in 0 .. c - 1 :
                   /\ Waiting(c, s, u) => Waiting(c, s, u)'
                   /\ \A j \in u .. c - 1, slot \in Slot : Answering(c, s, u, j, slot) => Answering(c, s, u, j, slot)'
                   /\ Agreed(c, s, u) => Agreed(c, s, u)'
                   /\ \A j \in u + 1 .. c, slot \in Slot : Telling(c, s, u, j, slot) => Telling(c, s, u, j, slot)'
    <3>1. ASSUME NEW j \in 1 .. c, NEW slot \in Slot, Asking(c, s, j, slot) PROVE Asking(c, s, j, slot)'
      BY <1>1, <1>4, <1>5, <1>7, <1>8, <3>1 DEF Asking
    <3>2. ASSUME NEW u \in 0 .. c - 1, Waiting(c, s, u) PROVE Waiting(c, s, u)'
      BY <1>1, <1>4, <1>7, <1>8, <3>2 DEF Waiting
    <3>3. ASSUME NEW u \in 0 .. c - 1, NEW j \in u .. c - 1, NEW slot \in Slot, Answering(c, s, u, j, slot)
          PROVE  Answering(c, s, u, j, slot)'
      BY <1>1, <1>3, <1>4, <1>6, <1>7, <1>8, <3>3 DEF Answering
    <3>4. ASSUME NEW u \in 0 .. c - 1, Agreed(c, s, u) PROVE Agreed(c, s, u)'
      BY <1>1, <1>3, <1>4, <1>7, <1>8, <3>4 DEF Agreed
    <3>5. ASSUME NEW u \in 0 .. c - 1, NEW j \in u + 1 .. c, NEW slot \in Slot, Telling(c, s, u, j, slot)
          PROVE  Telling(c, s, u, j, slot)'
      <4>1. [src |-> power[c], new |-> "on"]' = [src |-> power[c], new |-> "on"]
        BY <1>1
      <4>2. OnlyAnn(j, slot, [src |-> power[c], new |-> "on"])'
        BY <1>1, <3>5 DEF Telling, OnlyAnn
      <4> QED
        BY <1>1, <1>3, <1>4, <1>7, <1>8, <3>5, <4>2 DEF Telling
    <3> QED
      BY <3>1, <3>2, <3>3, <3>4, <3>5
  <2> QED
    BY <2>1, <2>2, <2>3 DEF Handshake
<1>10. \A i \in Link : SlotsOK(i)' /\ PacketsOK(i)'
  BY <1>1, Unmoved DEF Inv
<1> QED
  BY <1>2, <1>9, <1>10 DEF Inv, Link

LEMMA QuietStill ==
  ASSUME Inv, phase = "power", Quiet
  PROVE  /\ Steady /\ NoAnns /\ NoAnswer /\ tag = {} /\ sent = {} /\ Seen(0, 0, "on")
         /\ \A m \in Pos : Cycles(m, 3)
<1>1. \A i \in Pos : annOut[i] = NoAnn /\ ann[i] = NoAnn /\ annIn[i] = NoAnn
  BY DEF Quiet
<1>2. \A c \in Middle, s \in {"draining", "wakeup"} : ~Only(c, s)
  BY PosType DEF Only, Quiet, Link
<1>3. ASSUME NEW c \in Middle, NEW s \in {"draining", "wakeup"}, NEW u \in 0 .. c - 1,
             NEW j \in u + 1 .. c, NEW slot \in Slot, Telling(c, s, u, j, slot)
      PROVE  FALSE
  <2> DEFINE a == [src |-> power[c], new |-> "on"]
  <2>1. j \in Pos /\ c \in Pos
    BY StretchType
  <2>2. a \in Announcement
    BY <2>1, Typed DEF Inv, Announcement, PowerState
  <2>3. OnlyAnn(j, slot, a)
    BY <1>3 DEF Telling
  <2> HIDE DEF a
  <2>4. annOut[j] = a \/ ann[j] = a
    BY <2>1, <2>3 DEF OnlyAnn, Slot
  <2> QED
    BY <1>1, <2>1, <2>2, <2>4, AnnType
<1>4. Still
  BY <1>2, <1>3 DEF Inv, Handshake, Asking, Waiting, Answering, Agreed
<1> QED
  BY <1>1, <1>4 DEF Still

LEMMA SwitchFacts ==
  ASSUME Inv, PowerStateEvaluate, NEW c \in Middle, NEW s \in PowerState, Switch(c, s)
  PROVE  /\ phase = "power" /\ phase' = "eval"
         /\ UNCHANGED <<down, sent, image, left, buf, xbar, flitOut, flit, flitIn,
                        credOut, cred, credIn, ann, annIn, ansOut, ans, ansIn>>
         /\ power' = [power EXCEPT ![c] = s] /\ tag' = tag \ {c}
         /\ counter' = IF s = "off" THEN [counter EXCEPT ![c] = FreeSlots(c)] ELSE counter
         /\ annOut' = [annOut EXCEPT ![c] = [src |-> s, new |-> IF s = "off" THEN down[c] ELSE s]]
         /\ power'[c] = s /\ \A i \in Pos \ {c} : power'[i] = power[i] /\ counter'[i] = counter[i]
         /\ power[0] = "on" /\ power'[0] = "on" /\ power[Last] = "on" /\ power'[Last] = "on"
<1>1. power \in [Pos -> PowerState] /\ counter \in [Pos -> 0 .. Size]
  BY DEF Inv, TypeOK
<1>2. c \in Pos /\ c # 0 /\ c # Last /\ 0 \in Pos /\ Last \in Pos
  BY FlyCreditsAssumption DEF Pos, Middle
<1>3. power[0] = "on" /\ power[Last] = "on"
  BY DEF Inv, Rest
<1>4. power' = [power EXCEPT ![c] = s] /\ counter' = IF s = "off" THEN [counter EXCEPT ![c] = FreeSlots(c)] ELSE counter
  BY DEF Switch
<1> QED
  BY <1>1, <1>2, <1>3, <1>4 DEF PowerStateEvaluate, Switch, flits, channels

(* The router that announces something: from no announcement to one.       *)
LEMMA Announces ==
  ASSUME NEW c \in Pos, NEW a \in Announcement, NoAnns, phase' = "eval", phase = "power",
         annOut' = [annOut EXCEPT ![c] = a], UNCHANGED <<ann, annIn>>
  PROVE  OnlyAnn(c, "out", a)'
<1>1. annOut = [i \in Pos |-> NoAnn] /\ ann = [i \in Pos |-> NoAnn]
  BY DEF NoAnns, OnlyAnn
<1>2. annOut' = [i \in Pos |-> IF i = c THEN a ELSE NoAnn] /\ ann' = [i \in Pos |-> NoAnn]
  BY <1>1
<1> QED
  BY <1>2 DEF OnlyAnn

LEMMA SwitchTypes ==
  ASSUME Inv, PowerStateEvaluate, NEW c \in Middle, NEW s \in PowerState, Switch(c, s),
         s \in Bypassed => left[c] = 0 /\ xbar[c] = NoFlit /\ buf[c] = 0
  PROVE  TypeOK' /\ Rest'
<1>1. /\ phase = "power" /\ phase' = "eval"
      /\ UNCHANGED <<down, sent, image, left, buf, xbar, flitOut, flit, flitIn,
                     credOut, cred, credIn, ann, annIn, ansOut, ans, ansIn>>
      /\ power' = [power EXCEPT ![c] = s] /\ tag' = tag \ {c}
      /\ counter' = IF s = "off" THEN [counter EXCEPT ![c] = FreeSlots(c)] ELSE counter
      /\ annOut' = [annOut EXCEPT ![c] = [src |-> s, new |-> IF s = "off" THEN down[c] ELSE s]]
      /\ power'[0] = "on" /\ power'[Last] = "on"
      /\ power'[c] = s /\ \A i \in Pos \ {c} : power'[i] = power[i]
  BY SwitchFacts
<1>2. TypeOK /\ Rest /\ c \in Pos /\ c \in Link
  BY PosType DEF Inv
<1>3. FreeSlots(c) \in 0 .. Size
  <2>1. image[c].occ <= Size
    BY <1>2 DEF Inv, SlotsOK
  <2>2. image[c].occ \in Nat /\ Size \in Nat
    BY <1>2, Typed, PosType
  <2> QED
    BY <2>1, <2>2 DEF FreeSlots
<1>4. counter' \in [Pos -> 0 .. Size]
  BY <1>1, <1>2, <1>3 DEF TypeOK
<1>5. annOut' \in [Pos -> Announcement \cup {NoAnn}]
  <2>1. [src |-> s, new |-> IF s = "off" THEN down[c] ELSE s] \in Announcement
    BY <1>2, Typed DEF Announcement, TypeOK
  <2>2. annOut \in [Pos -> Announcement \cup {NoAnn}]
    BY <1>2 DEF TypeOK
  <2> DEFINE a == [src |-> s, new |-> IF s = "off" THEN down[c] ELSE s]
  <2>3. annOut' = [annOut EXCEPT ![c] = a] /\ a \in Announcement
    BY <1>1, <2>1
  <2> HIDE DEF a
  <2> QED
    BY <2>2, <2>3
<1>6. power' \in [Pos -> PowerState]
  BY <1>1, <1>2 DEF TypeOK
<1>7. TypeOK'
  <2>1. /\ tag' \in SUBSET Pos
        /\ {sent, credOut, cred, credIn, ansOut, ans, ansIn} \subseteq SUBSET Pos
        /\ {ann, annIn} \subseteq [Pos -> Announcement \cup {NoAnn}]
    BY <1>1, <1>2 DEF TypeOK
  <2>2. /\ down' \in [Pos -> PowerState]
        /\ image' \in [Pos -> [occ : 0 .. 2 * Size, inUse : BOOLEAN, tail : BOOLEAN]]
        /\ \A i \in Pos : left'[i] \in 0 .. PacketSize[i]
        /\ buf' \in [Pos -> 0 .. Size]
        /\ {xbar', flitOut', flit', flitIn'} \subseteq [Pos -> Flit \cup {NoFlit}]
    BY <1>1, <1>2 DEF TypeOK
  <2>3. /\ {sent', tag', credOut', cred', credIn', ansOut', ans', ansIn'} \subseteq SUBSET Pos
        /\ {annOut', ann', annIn'} \subseteq [Pos -> Announcement \cup {NoAnn}]
    BY <1>1, <1>5, <2>1
  <2> QED
    BY <1>1, <1>4, <1>6, <2>2, <2>3 DEF TypeOK
<1>8. Rest'
  BY <1>1, <1>2 DEF Rest
<1> QED
  BY <1>7, <1>8

(* A router starts to drain or to wake up.                                 *)
LEMMA SwitchStarts ==
  ASSUME Inv, PowerStateEvaluate, NEW c \in Middle, NEW s \in {"draining", "wakeup"}, Switch(c, s)
  PROVE  Inv'
<1> DEFINE a == [src |-> s, new |-> s]
<1>1. s \in PowerState /\ s # "off" /\ c \in Pos /\ c \in Int /\ c \in Link
  BY PosType DEF PowerState
<1>2. /\ phase = "power" /\ phase' = "eval"
      /\ UNCHANGED <<down, sent, image, left, buf, xbar, flitOut, flit, flitIn,
                     credOut, cred, credIn, ann, annIn, ansOut, ans, ansIn>>
      /\ tag' = tag \ {c} /\ counter' = counter
      /\ annOut' = [annOut EXCEPT ![c] = a]
      /\ power'[c] = s /\ \A i \in Pos \ {c} : power'[i] = power[i]
  BY <1>1, SwitchFacts
<1>3. a \in Announcement /\ a.src = s
  BY <1>1 DEF Announcement
<1> HIDE DEF a
<1>4. Quiet /\ power[c] = IF s = "draining" THEN "on" ELSE "off"
  BY DEF Switch, Becomes
<1>5. /\ Steady /\ NoAnns /\ NoAnswer /\ tag = {} /\ sent = {} /\ Seen(0, 0, "on")
      /\ \A m \in Pos : Cycles(m, 3)
  BY <1>2, <1>4, QuietStill
<1>6. OnlyAnn(c, "out", a)'
  BY <1>1, <1>2, <1>3, <1>5, Announces
<1>7. \A i \in Pos : power[i] \in Idle <=> power'[i] \in Idle
  BY <1>2, <1>4 DEF Idle
<1>8. \A i \in Pos : power'[i] \in PowerState /\ power[i] \in PowerState
  <2>1. \A i \in Pos : power[i] \in PowerState
    BY Typed DEF Inv
  <2> QED
    BY <1>1, <1>2, <2>1
<1>9. TypeOK' /\ Rest'
  <2>1. s \in Bypassed => left[c] = 0 /\ xbar[c] = NoFlit /\ buf[c] = 0
    BY <1>1, <1>4 DEF Inv, Rest, Bypassed
  <2> QED
    BY <1>1, <2>1, SwitchTypes
<1>10. Asking(c, s, c, "out")'
  <2>1. Only(c, s)'
    BY <1>2, <1>5 DEF Only, Steady
  <2>2. NoAnswer' /\ tag' = {} /\ sent' = {}
    BY <1>2, <1>5 DEF NoAnswer, OnlyAns
  <2>3. Seen(c, c, s)'
    BY <1>1, <1>2, <1>5, PosType DEF Seen
  <2>4. ASSUME NEW m \in Pos
        PROVE  Cycles(m, CASE m < c -> 3 + Delay("out") [] m \in c .. c - 1 -> 5 + Delay("out") [] m >= c -> 3)'
    <3>1. power'[m] \in Bypassed <=> power[m] \in Bypassed
      BY <1>7, <1>8 DEF PowerState, Idle, Bypassed
    <3>2. Cycles(m, 3)
      BY <1>5
    <3>3. Cycles(m, 3)'
      BY <1>2, <3>1, <3>2 DEF Cycles, Bit
    <3>4. m \in Int /\ 3 + Delay("out") = 3
      BY PosType DEF Delay
    <3> QED
      BY <1>1, <3>3, <3>4
  <2>5. \A i \in c .. c - 1 : FALSE
    BY <1>1
  <2>6. OnlyAnn(c, "out", [src |-> s, new |-> s])'
    BY <1>6 DEF a
  <2> QED
    BY <2>1, <2>2, <2>3, <2>4, <2>5, <2>6 DEF Asking
<1>11. Handshake'
  <2>1. c \in 1 .. c /\ "out" \in Slot
    BY StretchType DEF Slot
  <2> QED
    BY <1>10, <2>1 DEF Handshake
<1>12. ASSUME NEW i \in Link PROVE SlotsOK(i)' /\ PacketsOK(i)'
  <2>1. i \in Pos /\ i + 1 \in Pos
    BY PosType
  <2>2. SlotsOK(i) /\ PacketsOK(i)
    BY DEF Inv
  <2>3. ~Live(i + 1, "on") /\ ~Live(i + 1, "off")
    BY <1>5, <2>1, NoAnnsLive DEF PowerState
  <2>4. ~Live(i + 1, "on")' /\ ~Live(i + 1, "off")'
    <3>1. /\ annOut'[i + 1] = (IF i + 1 = c THEN a ELSE NoAnn) /\ ann'[i + 1] = NoAnn /\ phase' # "read"
      BY <1>2, <1>6, <2>1 DEF OnlyAnn
    <3>2. NoAnn.src # "on" /\ NoAnn.src # "off" /\ a.src # "on" /\ a.src # "off"
      BY <1>3, AnnType
    <3> QED
      BY <3>1, <3>2 DEF Live
  <2>5. {power[i], power[i + 1], power'[i], power'[i + 1]} \subseteq PowerState
    BY <1>8, <2>1
  <2> QED
    BY <1>2, <1>7, <2>1, <2>2, <2>3, <2>4, <2>5, LinkStays
<1>13. Link' = Link
  BY DEF Link
<1> QED
  BY <1>9, <1>11, <1>12, <1>13 DEF Inv

(* What the tag of router c says.                                          *)
LEMMA TagSays ==
  ASSUME Inv, phase = "power", NEW c \in Middle, c \in tag
  PROVE  \E s \in {"draining", "wakeup"}, u \in 0 .. c - 1 : Agreed(c, s, u)
<1>1. ~Still
  BY DEF Still
<1>2. PICK k \in Middle, s \in {"draining", "wakeup"} :
        \/ \E j \in 1 .. k, slot \in Slot : Asking(k, s, j, slot)
        \/ \E u \in 0 .. k - 1 :
             \/ Waiting(k, s, u)
             \/ \E j \in u .. k - 1, slot \in Slot : Answering(k, s, u, j, slot)
             \/ Agreed(k, s, u)
             \/ \E j \in u + 1 .. k, slot \in Slot : Telling(k, s, u, j, slot)
  BY <1>1 DEF Inv, Handshake
<1>3. PICK u \in 0 .. k - 1 : Agreed(k, s, u)
  BY <1>2 DEF Asking, Waiting, Answering, Telling
<1>4. k = c
  BY <1>3 DEF Agreed
<1> QED
  BY <1>3, <1>4

(* With an answer from every router up to the next one that is on, nothing *)
(* is on its way to c, and no packet is open there.                        *)
LEMMA NothingComes ==
  ASSUME Inv, NEW c \in Middle, NEW s \in {"draining", "wakeup"}, NEW u \in 0 .. c - 1,
         Agreed(c, s, u), s = "draining" => left[c] = 0
  PROVE  /\ c - 1 \in Link /\ Flits(c - 1) = 0 /\ ~Open(c - 1) /\ left[c - 1] = 0
         /\ ~Open(c) /\ (image[c].inUse => image[c].tail) /\ left[c] = 0
<1>1. c - 1 \in Link /\ c - 1 \in u .. c - 1 /\ c \in Pos /\ c \in Link /\ (c - 1) + 1 = c
  BY StretchType DEF Link
<1>2. Hush(c - 1) /\ power[c] = s
  BY <1>1 DEF Agreed, Only
<1>3. PacketsOK(c - 1) /\ PacketsOK(c)
  BY <1>1 DEF Inv
<1>4. Flits(c - 1) = 0 /\ ~Open(c - 1) /\ left[c - 1] = 0
  BY <1>2 DEF Hush
<1>5. CASE s = "draining"
  <2>1. left[c] = 0 /\ power[c] \in Idle
    BY <1>2, <1>5 DEF Idle
  <2> QED
    BY <1>1, <1>3, <1>4, <2>1 DEF Open, PacketsOK
<1>6. CASE s = "wakeup"
  <2>1. power[c] \in Bypassed /\ power[c] \notin Idle
    BY <1>2, <1>6 DEF Bypassed, Idle
  <2>2. InOrder(c - 1)
    BY <1>1, <1>3, <2>1 DEF PacketsOK
  <2>3. Flit1(c - 1) = NoFlit /\ flit[c - 1] = NoFlit /\ flitOut[c - 1] = NoFlit /\ xbar[c - 1] = NoFlit
    BY <1>4, Counts
  <2>4. Open(c) <=> Open(c - 1)
    BY <1>1, <2>2, <2>3 DEF InOrder, OpenAfter, Open1, Open2, Open3
  <2>5. left[c] = 0
    BY <1>1, <2>1 DEF Inv, Rest
  <2> QED
    BY <1>1, <1>4, <2>1, <2>4, <2>5 DEF Open
<1> QED
  BY <1>5, <1>6

(* The stage after a router went off or on.                                *)
LEMMA SwitchTells ==
  ASSUME Inv, PowerStateEvaluate, NEW c \in Middle, NEW s \in {"draining", "wakeup"}, NEW u \in 0 .. c - 1,
         Agreed(c, s, u), NEW t \in {"on", "off"}, t = IF s = "draining" THEN "off" ELSE "on", Switch(c, t)
  PROVE  /\ Telling(c, s, u, c, "out")'
         /\ annOut' = [i \in Pos |-> IF i = c THEN [src |-> t, new |-> "on"] ELSE NoAnn]
         /\ ann' = [i \in Pos |-> NoAnn] /\ NoAnns
<1> DEFINE a == [src |-> t, new |-> "on"]
<1>1. t \in PowerState /\ c \in Pos /\ c \in Int /\ c \in Link /\ u \in Int /\ u < c /\ c < Last /\ u \in Pos
  BY PosType, StretchType DEF PowerState
<1>2. NoAnns /\ down[c] = "on"
  <2>1. c \notin u .. c - 1 /\ c # Last
    BY <1>1
  <2> QED
    BY <1>1, <2>1 DEF Agreed, Seen
<1>3. /\ phase = "power" /\ phase' = "eval"
      /\ UNCHANGED <<down, sent, image, left, buf, xbar, flitOut, flit, flitIn,
                     credOut, cred, credIn, ann, annIn, ansOut, ans, ansIn>>
      /\ tag' = tag \ {c}
      /\ counter' = IF t = "off" THEN [counter EXCEPT ![c] = FreeSlots(c)] ELSE counter
      /\ annOut' = [annOut EXCEPT ![c] = a]
      /\ power'[c] = t /\ \A i \in Pos \ {c} : power'[i] = power[i] /\ counter'[i] = counter[i]
  BY <1>1, <1>2, SwitchFacts
<1>4. a \in Announcement /\ a = [src |-> power[c], new |-> "on"]'
  BY <1>1, <1>3 DEF Announcement, PowerState
<1> HIDE DEF a
<1>5. OnlyAnn(c, "out", a)'
  BY <1>1, <1>2, <1>3, <1>4, Announces
<1>6. Steady' /\ Beyond(u, c)'
  <2>1. Only(c, s) /\ Beyond(u, c)
    BY DEF Agreed
  <2>2. Steady'
    BY <1>3, <2>1 DEF Only, Steady
  <2>3. \A i \in u .. c - 1 : i \in Pos \ {c}
    BY <1>1, StretchType
  <2>4. Beyond(u, c)'
    BY <1>1, <1>3, <2>1, <2>3 DEF Beyond
  <2> QED
    BY <2>2, <2>4
<1>7. NoAnswer' /\ tag' = {} /\ sent' = {u} /\ Seen(u, c, s)'
  BY <1>3 DEF Agreed, NoAnswer, OnlyAns, Seen
<1>8. \A i \in u .. c - 1 : Hush(i)'
  <2>1. \A i \in u .. c - 1 : i \in Pos \ {c} /\ Hush(i)
    BY <1>1, StretchType DEF Agreed
  <2> QED
    BY <1>3, <2>1, HushStays
<1>9. ASSUME NEW m \in Pos
      PROVE  Cycles(m, IF m \in u + 1 .. c - 1 THEN 11 + Delay("out") ELSE Delay("out"))'
  <2>1. Delay("out") = 0 /\ 11 + Delay("out") = 11
    BY DEF Delay
  <2>2. Cycles(m, IF m \in u + 1 .. c - 1 THEN 11 ELSE 3)
    BY DEF Agreed
  <2>3. image[m].occ \in Nat /\ counter[m] \in Nat /\ Size \in Nat /\ Bit(phase = "write") = 0 /\ Bit(phase' = "write") = 0
    BY <1>3, Typed, PosType DEF Inv, Bit
  <2>4. CASE m # c
    <3>1. power'[m] = power[m] /\ counter'[m] = counter[m] /\ image'[m] = image[m]
      BY <1>3, <2>4
    <3>2. CASE m \in u + 1 .. c - 1
      BY <2>1, <2>2, <2>3, <3>1, <3>2 DEF Cycles
    <3>3. CASE m \notin u + 1 .. c - 1
      <4>1. Cycles(m, 3)
        BY <2>2, <3>3
      <4>2. Cycles(m, 0)'
        BY <2>3, <3>1, <4>1 DEF Cycles
      <4> QED
        BY <2>1, <3>3, <4>2
    <3> QED
      BY <3>2, <3>3
  <2>5. CASE m = c
    <3>1. m \notin u + 1 .. c - 1
      BY <1>1, <2>5
    <3>2. Cycles(m, 0)'
      <4>1. CASE t = "on"
        BY <1>3, <2>5, <4>1 DEF Cycles, Bypassed
      <4>2. CASE t = "off"
        <5>1. counter'[c] = FreeSlots(c)
          BY <1>1, <1>3, <4>2 DEF Inv, TypeOK
        <5> QED
          BY <1>3, <2>3, <2>5, <5>1 DEF Cycles, FreeSlots
      <4> QED
        BY <4>1, <4>2
    <3> QED
      BY <2>1, <3>1, <3>2
  <2> QED
    BY <2>4, <2>5
<1>10. OnlyAnn(c, "out", [src |-> power[c], new |-> "on"])'
  <2>1. /\ annOut' = [i \in Pos |-> IF i = c THEN a ELSE NoAnn] /\ ann' = [i \in Pos |-> NoAnn]
    BY <1>5 DEF OnlyAnn
  <2> QED
    BY <1>3, <1>4, <2>1 DEF OnlyAnn
<1>11. Telling(c, s, u, c, "out")'
  <2>1. power'[c] = IF s = "draining" THEN "off" ELSE "on"
    BY <1>3
  <2> QED
    BY <1>6, <1>7, <1>8, <1>9, <1>10, <2>1 DEF Telling
<1>12. annOut' = [i \in Pos |-> IF i = c THEN [src |-> t, new |-> "on"] ELSE NoAnn] /\ ann' = [i \in Pos |-> NoAnn]
  BY <1>5 DEF OnlyAnn, a
<1> QED
  BY <1>2, <1>11, <1>12

(* A router goes off, or on.                                               *)
LEMMA SwitchEnds ==
  ASSUME Inv, PowerStateEvaluate, NEW c \in Middle, NEW s \in {"draining", "wakeup"}, NEW u \in 0 .. c - 1,
         Agreed(c, s, u), NEW t \in {"on", "off"}, t = IF s = "draining" THEN "off" ELSE "on", Switch(c, t)
  PROVE  Inv'
<1> DEFINE h == c - 1
<1>1. t \in PowerState /\ c \in Pos /\ c \in Int /\ c \in Link /\ c < Last /\ h \in Link /\ h \in Pos /\ h + 1 = c /\ h # c
  BY PosType, StretchType DEF PowerState, Link
<1> HIDE DEF h
<1>2. /\ phase = "power" /\ phase' = "eval"
      /\ UNCHANGED <<down, sent, image, left, buf, xbar, flitOut, flit, flitIn,
                     credOut, cred, credIn, ann, annIn, ansOut, ans, ansIn>>
      /\ counter' = IF t = "off" THEN [counter EXCEPT ![c] = FreeSlots(c)] ELSE counter
      /\ power'[c] = t /\ \A i \in Pos \ {c} : power'[i] = power[i] /\ counter'[i] = counter[i]
  BY <1>1, SwitchFacts
<1>3. power[c] = s
  BY DEF Agreed, Only
<1>4. left[c] = 0 /\ xbar[c] = NoFlit /\ buf[c] = 0
  <2>1. CASE s = "draining"
    BY <2>1 DEF Switch, Becomes, Drained
  <2>2. CASE s = "wakeup"
    BY <1>1, <1>3, <2>2 DEF Inv, Rest, Bypassed
  <2> QED
    BY <2>1, <2>2
<1>5. /\ Flits(h) = 0 /\ ~Open(h) /\ left[h] = 0 /\ ~Open(c) /\ (image[c].inUse => image[c].tail)
  BY <1>4, NothingComes DEF h
<1>6. /\ Telling(c, s, u, c, "out")'
      /\ annOut' = [i \in Pos |-> IF i = c THEN [src |-> t, new |-> "on"] ELSE NoAnn]
      /\ ann' = [i \in Pos |-> NoAnn] /\ NoAnns
  BY SwitchTells
<1>7. TypeOK' /\ Rest'
  BY <1>1, <1>4, SwitchTypes
<1>8. Handshake'
  <2>1. c \in u + 1 .. c /\ "out" \in Slot
    BY StretchType DEF Slot
  <2> QED
    BY <1>6, <2>1 DEF Handshake
<1>9. ~Open(c)'
  BY <1>1, <1>2, <1>4, <1>5 DEF Open
<1>10. \A i \in Pos, src \in {"on", "off"} : (Live(i, src)' <=> i = c /\ src = t) /\ ~Live(i, src)
  <2>1. \A i \in Pos : annOut'[i] = (IF i = c THEN [src |-> t, new |-> "on"] ELSE NoAnn) /\ ann'[i] = NoAnn
    BY <1>6
  <2>2. NoAnn.src # "on" /\ NoAnn.src # "off"
    BY AnnType
  <2>3. \A i \in Pos, src \in {"on", "off"} : Live(i, src)' <=> i = c /\ src = t
    BY <1>2, <2>1, <2>2 DEF Live
  <2>4. \A i \in Pos, src \in {"on", "off"} : ~Live(i, src)
    BY <1>6, NoAnnsLive DEF PowerState
  <2> QED
    BY <2>3, <2>4
<1>11. ASSUME NEW i \in Link, i # h PROVE SlotsOK(i)' /\ PacketsOK(i)'
  <2>1. i \in Pos /\ i + 1 \in Pos /\ i + 1 # c
    BY <1>1, <1>11, PosType
  <2>2. SlotsOK(i) /\ PacketsOK(i)
    BY DEF Inv
  <2>3. power'[i + 1] = power[i + 1] /\ counter'[i + 1] = counter[i + 1]
    BY <1>2, <2>1
  <2>4. ~Live(i + 1, "on") /\ ~Live(i + 1, "off") /\ ~Live(i + 1, "on")' /\ ~Live(i + 1, "off")'
    BY <1>10, <2>1
  <2>5. {power[i], power[i + 1], power'[i], power'[i + 1]} \subseteq PowerState
    <3>1. power[i] \in PowerState /\ power[i + 1] \in PowerState
      BY <2>1, Typed DEF Inv
    <3>2. power'[i] = t \/ power'[i] = power[i]
      BY <1>2, <2>1
    <3> QED
      BY <1>1, <2>3, <3>1, <3>2
  <2>6. \/ power[i] \in Idle <=> power'[i] \in Idle
        \/ ~Open(i) /\ ~Open(i)' /\ (image[i].inUse => image[i].tail)
    <3>1. CASE i = c
      BY <1>5, <1>9, <3>1
    <3>2. CASE i # c
      BY <1>2, <2>1, <3>2
    <3> QED
      BY <3>1, <3>2
  <2> QED
    BY <1>2, <2>2, <2>3, <2>4, <2>5, <2>6, LinkStays
<1>12. SlotsOK(h) /\ PacketsOK(h) /\ SlotsOK(c)
  BY <1>1 DEF Inv
<1>13. /\ Flits(h)' = 0 /\ Creds(c)' = Creds(c)
       /\ Flit1(h)' = NoFlit /\ flit'[h] = NoFlit /\ flitOut'[h] = NoFlit /\ xbar'[h] = NoFlit
       /\ Flit1(h) = NoFlit /\ flit[h] = NoFlit /\ flitOut[h] = NoFlit /\ xbar[h] = NoFlit
  BY <1>2, <1>5, NoFlitMoves, Counts
<1>14. /\ image[h].occ \in Nat /\ image[c].occ \in Nat /\ counter[c] \in Nat /\ Size \in Nat
       /\ Creds(c) \in Nat /\ buf[c] = 0
  <2>1. Creds(c) \in 0 .. 3
    BY Counts
  <2>2. Creds(c) \in Nat
    BY <2>1
  <2> QED
    BY <1>1, <1>4, <2>2, Typed, PosType DEF Inv
<1>15. Behind(c)' = 0
  <2>1. credOut' = {} /\ annOut'[c] # NoAnn
    <3>1. credOut = {}
      BY <1>2 DEF Inv, Rest
    <3>2. annOut'[c].src = t
      BY <1>1, <1>6
    <3> QED
      BY <1>2, <3>1, <3>2, AnnType
  <2> QED
    BY <2>1 DEF Behind, Bit
<1>16. ~Live(c, "on") /\ ~Live(c, "off") /\ (Live(c, "on")' <=> t = "on") /\ (Live(c, "off")' <=> t = "off")
  BY <1>1, <1>10
<1>17. image[h].occ = Use(c) + Creds(c) /\ Use(c) \in Nat /\ (s = "draining" => Use(c) = 0) /\ image[h].occ <= Size
  <2>1. Use(c) \in Nat /\ (s = "draining" => Use(c) = 0)
    BY <1>3, <1>4, <1>14 DEF Use, Idle
  <2> QED
    BY <1>1, <1>5, <1>12, <1>14, <1>16, <2>1 DEF SlotsOK
<1>18. Use(c)' = IF t = "off" THEN Size ELSE 0
  <2>1. CASE t = "off"
    <3>1. counter'[c] = FreeSlots(c)
      BY <1>1, <1>2, <2>1 DEF Inv, TypeOK
    <3>2. image'[c] = image[c]
      BY <1>2
    <3> QED
      BY <1>2, <1>14, <2>1, <3>1, <3>2 DEF Use, FreeSlots, Idle
  <2>2. CASE t = "on"
    BY <1>2, <1>4, <2>2 DEF Use, Idle
  <2> QED
    BY <2>1, <2>2
<1>19. SlotsOK(h)'
  <2>1. image'[h] = image[h]
    BY <1>2
  <2>2. s = "draining" \/ t = "on"
    OBVIOUS
  <2>3. CASE t = "off"
    BY <1>1, <1>13, <1>14, <1>15, <1>16, <1>17, <1>18, <2>1, <2>3 DEF SlotsOK
  <2>4. CASE t = "on"
    BY <1>1, <1>13, <1>14, <1>15, <1>16, <1>17, <1>18, <2>1, <2>4 DEF SlotsOK
  <2> QED
    BY <2>3, <2>4
<1>20. PacketsOK(h)'
  <2>1. /\ image'[h] = image[h] /\ left'[h] = left[h] /\ (AtHead(h)' <=> AtHead(h)) /\ (Held(h)' <=> Held(h))
        /\ power'[h] = power[h]
    BY <1>1, <1>2 DEF AtHead, Held
  <2>2. ~Open(h)'
    BY <1>5, <2>1 DEF Open
  <2>3. InOrder(h)'
    BY <1>1, <1>9, <1>13, <2>2 DEF InOrder, Fits, OpenAfter, Open1, Open2, Open3
  <2>4. Alone(h)' <=> Alone(h)
    <3>1. Flits(h)' = Flits(h)
      BY <1>5, <1>13
    <3> QED
      BY <1>13, <2>1, <3>1 DEF Alone
  <2>5. power'[c] \in Bypassed => Live(c, "off")' /\ ~Live(c, "on")'
    BY <1>2, <1>16 DEF Bypassed
  <2> QED
    BY <1>1, <1>12, <1>13, <2>1, <2>3, <2>4, <2>5 DEF PacketsOK
<1>21. Link' = Link
  BY DEF Link
<1> QED
  BY <1>7, <1>8, <1>11, <1>19, <1>20, <1>21 DEF Inv

LEMMA PowerStep ==
  ASSUME Inv, PowerStateEvaluate
  PROVE  Inv'
<1>1. CASE \E c \in Middle, s \in PowerState : Switch(c, s)
  <2>1. PICK c \in Middle, s \in PowerState : Switch(c, s)
    BY <1>1
  <2>2. CASE s \in {"draining", "wakeup"}
    BY <2>1, <2>2, SwitchStarts
  <2>3. CASE s \in {"on", "off"}
    <3>1. c \in tag /\ phase = "power" /\ power[c] = IF s = "off" THEN "draining" ELSE "wakeup"
      BY <2>1, <2>3 DEF Switch, Becomes, Drained, PowerStateEvaluate
    <3>2. PICK r \in {"draining", "wakeup"}, u \in 0 .. c - 1 : Agreed(c, r, u)
      BY <3>1, TagSays
    <3>3. s = IF r = "draining" THEN "off" ELSE "on"
      BY <2>3, <3>1, <3>2 DEF Agreed, Only
    <3> QED
      BY <2>1, <2>3, <3>2, <3>3, SwitchEnds
  <2> QED
    BY <2>1, <2>2, <2>3 DEF PowerState
<1>2. CASE UNCHANGED <<power, tag, counter, annOut, switches>>
  BY <1>2, PowerStays
<1> QED
  BY <1>1, <1>2 DEF PowerStateEvaluate

-----------------------------------------------------------------------------
(* ReadInputs.                                                             *)

LEMMA ReadFacts ==
  ASSUME Inv, ReadInputs
  PROVE  /\ phase = "read" /\ phase' = "power"
         /\ UNCHANGED <<power, left, buf, xbar, flitOut, flit, flitIn, credOut, cred, credIn,
                        ann, annIn, ans, ansIn, packets>>
         /\ credOut = {} /\ ansOut = {} /\ flitOut = [i \in Pos |-> NoFlit] /\ annOut = [i \in Pos |-> NoAnn]
         /\ \A i \in Pos : FromEast(i) \in Announcement \cup {NoAnn}
         /\ FromEast(Last) = NoAnn
         /\ \A i \in Link : FromEast(i) = annIn[i + 1]
<1>1. /\ phase = "read" /\ phase' = "power"
      /\ UNCHANGED <<power, left, buf, xbar, flitOut, flit, flitIn, credOut, cred, credIn,
                     ann, annIn, ans, ansIn, packets>>
  BY DEF ReadInputs, flits, channels
<1>2. credOut = {} /\ ansOut = {} /\ flitOut = [i \in Pos |-> NoFlit] /\ annOut = [i \in Pos |-> NoAnn]
  BY <1>1 DEF Inv, Rest
<1>3. FromEast(Last) = NoAnn /\ \A i \in Link : FromEast(i) = annIn[i + 1]
  BY FlyCreditsAssumption DEF FromEast, Link
<1>4. \A i \in Pos : i = Last \/ i \in Link
  BY FlyCreditsAssumption DEF Pos, Link
<1>5. \A i \in Pos : FromEast(i) \in Announcement \cup {NoAnn}
  <2>1. \A i \in Link : annIn[i + 1] \in Announcement \cup {NoAnn}
    BY PosType DEF Inv, TypeOK
  <2> QED
    BY <1>3, <1>4, <2>1
<1> QED
  BY <1>1, <1>2, <1>3, <1>5

LEMMA ReadTypes ==
  ASSUME Inv, ReadInputs
  PROVE  TypeOK' /\ Rest'
<1>1. /\ phase = "read" /\ phase' = "power"
      /\ UNCHANGED <<power, left, buf, xbar, flitOut, flit, flitIn, credOut, cred, credIn,
                     ann, annIn, ans, ansIn, packets>>
      /\ \A i \in Pos : FromEast(i) \in Announcement \cup {NoAnn}
      /\ FromEast(Last) = NoAnn
  BY ReadFacts
<1>2. TypeOK /\ Rest
  BY DEF Inv
<1>3. down' \in [Pos -> PowerState]
  <2>1. \A i \in Pos : FromEast(i) # NoAnn => FromEast(i).new \in PowerState
    BY <1>1, AnnType
  <2> QED
    BY <1>2, <2>1, Typed DEF ReadInputs
<1>4. image' \in [Pos -> [occ : 0 .. 2 * Size, inUse : BOOLEAN, tail : BOOLEAN]]
  <2>1. ASSUME NEW i \in Pos PROVE ImageAfter(i) \in [occ : 0 .. 2 * Size, inUse : BOOLEAN, tail : BOOLEAN]
    <3>1. image[i] \in [occ : 0 .. 2 * Size, inUse : BOOLEAN, tail : BOOLEAN]
      BY <1>2 DEF TypeOK
    <3>2. Size \in Nat /\ 0 \in 0 .. 2 * Size
      BY PosType
    <3>3. CASE i = Last
      <4>1. ~WentOff(i) /\ ~WokeUp(i)
        BY <1>1, <3>3, AnnType DEF WentOff, WokeUp
      <4> QED
        BY <3>1, <4>1 DEF ImageAfter
    <3>4. CASE i # Last
      <4>1. i \in Link
        BY <3>4, FlyCreditsAssumption DEF Link, Pos
      <4>2. image[i].occ <= Size /\ image[i].occ \in Nat
        BY <1>2, <4>1, Typed DEF Inv, SlotsOK
      <4>3. image[i].occ + Size \in 0 .. 2 * Size
        BY <3>2, <4>2
      <4>4. /\ ClearCredits(image[i]) \in [occ : 0 .. 2 * Size, inUse : BOOLEAN, tail : BOOLEAN]
            /\ FullCredits(image[i]) \in [occ : 0 .. 2 * Size, inUse : BOOLEAN, tail : BOOLEAN]
        BY <3>2, <4>3 DEF ClearCredits, FullCredits
      <4>5. ~(WentOff(i) /\ WokeUp(i))
        BY DEF WentOff, WokeUp
      <4> QED
        BY <3>1, <4>4, <4>5 DEF ImageAfter
    <3> QED
      BY <3>3, <3>4
  <2> QED
    BY <2>1 DEF ReadInputs
<1>5. counter' \in [Pos -> 0 .. Size]
  <2>1. \A i \in Pos : counter[i] \in 0 .. Size /\ 0 \in 0 .. Size
    BY <1>2, PosType DEF TypeOK
  <2> QED
    BY <2>1 DEF ReadInputs, CounterAfter
<1>6. /\ {sent', tag', credOut', cred', credIn', ansOut', ans', ansIn'} \subseteq SUBSET Pos
  BY <1>1, <1>2 DEF TypeOK, ReadInputs
<1>7. annOut' \in [Pos -> Announcement \cup {NoAnn}]
  BY <1>1 DEF ReadInputs
<1>8. TypeOK'
  BY <1>1, <1>2, <1>3, <1>4, <1>5, <1>6, <1>7 DEF TypeOK
<1>9. Rest'
  BY <1>1, <1>2 DEF Rest
<1> QED
  BY <1>8, <1>9

LEMMA Stages ==
  ASSUME NEW c \in Middle, NEW s \in {"draining", "wakeup"}
  PROVE  /\ \A j \in 1 .. c, slot \in Slot : Asking(c, s, j, slot)' => Handshake'
         /\ \A u \in 0 .. c - 1 :
              /\ Waiting(c, s, u)' => Handshake'
              /\ \A j \in u .. c - 1, slot \in Slot : Answering(c, s, u, j, slot)' => Handshake'
              /\ Agreed(c, s, u)' => Handshake'
              /\ \A j \in u + 1 .. c, slot \in Slot : Telling(c, s, u, j, slot)' => Handshake'
<1>1. \A j \in 1 .. c, slot \in Slot : Asking(c, s, j, slot)' => Handshake'
  BY DEF Handshake
<1>2. ASSUME NEW u \in 0 .. c - 1 PROVE Waiting(c, s, u)' => Handshake'
  BY DEF Handshake
<1>3. ASSUME NEW u \in 0 .. c - 1, NEW j \in u .. c - 1, NEW slot \in Slot, Answering(c, s, u, j, slot)'
      PROVE  Handshake'
  BY <1>3 DEF Handshake
<1>4. ASSUME NEW u \in 0 .. c - 1 PROVE Agreed(c, s, u)' => Handshake'
  BY DEF Handshake
<1>5. ASSUME NEW u \in 0 .. c - 1, NEW j \in u + 1 .. c, NEW slot \in Slot, Telling(c, s, u, j, slot)'
      PROVE  Handshake'
  BY <1>5 DEF Handshake
<1> QED
  BY <1>1, <1>2, <1>3, <1>4, <1>5

(* No announcement arrives. *)
LEMMA ReadNoAnn ==
  ASSUME Inv, ReadInputs, \A i \in Pos : annIn[i] = NoAnn
  PROVE  /\ UNCHANGED <<down, image, counter, sent, annOut>>
         /\ \A i : (Open(i)' <=> Open(i)) /\ (Hush(i)' <=> Hush(i))
         /\ \A i, n : Cycles(i, n)' <=> Cycles(i, n)
         /\ \A i \in Link : SlotsOK(i)' /\ PacketsOK(i)'
<1>1. /\ phase = "read" /\ phase' = "power"
      /\ UNCHANGED <<power, left, buf, xbar, flitOut, flit, flitIn, credOut, cred, credIn,
                     ann, annIn, ans, ansIn, packets>>
      /\ annOut = [i \in Pos |-> NoAnn]
      /\ FromEast(Last) = NoAnn /\ \A i \in Link : FromEast(i) = annIn[i + 1]
  BY ReadFacts
<1>2. \A i \in Pos : FromEast(i) = NoAnn
  <2>1. \A i \in Pos : i = Last \/ (i \in Link /\ i + 1 \in Pos)
    BY FlyCreditsAssumption DEF Pos, Link
  <2> QED
    BY <1>1, <2>1
<1>3. \A i \in Pos : ~WentOff(i) /\ ~WokeUp(i)
  BY <1>2, AnnType DEF WentOff, WokeUp
<1>4. \A i \in Pos : ImageAfter(i) = image[i] /\ CounterAfter(i) = counter[i]
  BY <1>3 DEF ImageAfter, CounterAfter
<1>5. TypeOK
  BY DEF Inv
<1>6. image' = image
  BY <1>4, <1>5 DEF TypeOK, ReadInputs
<1>7. counter' = counter
  BY <1>4, <1>5 DEF TypeOK, ReadInputs
<1>8. down' = down
  BY <1>2, <1>5 DEF TypeOK, ReadInputs
<1>9. sent' = sent
  BY <1>2, <1>5 DEF TypeOK, ReadInputs
<1>10. annOut' = annOut
  BY <1>1, <1>2 DEF ReadInputs
<1>11. \A i \in Link : SlotsOK(i) /\ PacketsOK(i)
  BY DEF Inv
<1> QED
  BY <1>1, <1>6, <1>7, <1>8, <1>9, <1>10, <1>11, Unmoved

(* Neither an announcement nor an answer arrives: the stage stays.         *)
LEMMA ReadNothing ==
  ASSUME Inv, ReadInputs, \A i \in Pos : annIn[i] = NoAnn, ansIn = {}
  PROVE  Handshake'
<1>1. /\ phase = "read" /\ phase' = "power"
      /\ UNCHANGED <<power, left, buf, xbar, flitOut, flit, flitIn, ann, annIn, ans, ansIn>>
      /\ ansOut = {} /\ annOut = [i \in Pos |-> NoAnn]
  BY ReadFacts
<1>2. /\ UNCHANGED <<down, image, counter, sent, annOut>>
      /\ \A i : (Open(i)' <=> Open(i)) /\ (Hush(i)' <=> Hush(i))
      /\ \A i, n : Cycles(i, n)' <=> Cycles(i, n)
  BY ReadNoAnn
<1>3. tag' = tag /\ ansOut' = ansOut
  BY <1>1 DEF ReadInputs, Answered
<1>4. /\ \A c, s : Only(c, s)' <=> Only(c, s)
      /\ Steady' <=> Steady
      /\ \A u, c, s : Seen(u, c, s)' <=> Seen(u, c, s)
      /\ \A u, c : Beyond(u, c)' <=> Beyond(u, c)
  BY <1>1, <1>2 DEF Only, Steady, Seen, Beyond
<1>5. ASSUME NEW j, NEW slot \in Slot, NEW a, OnlyAnn(j, slot, a), j \in Pos, a # NoAnn
      PROVE  OnlyAnn(j, slot, a)' /\ slot # "in"
  <2>1. slot # "in"
    <3>1. annIn[j] = IF slot = "in" THEN a ELSE NoAnn
      BY <1>1, <1>5 DEF OnlyAnn
    <3> QED
      BY <1>5, <3>1
  <2> QED
    BY <1>1, <1>2, <1>5, <2>1 DEF OnlyAnn
<1>6. NoAnns => NoAnns'
  BY <1>1, <1>2 DEF NoAnns, OnlyAnn
<1>7. NoAnswer => NoAnswer'
  BY <1>1, <1>3 DEF NoAnswer, OnlyAns
<1>8. ASSUME NEW j, NEW slot \in Slot, OnlyAns(j, slot) PROVE OnlyAns(j, slot)' /\ slot # "in"
  <2>1. slot # "in"
    BY <1>1, <1>8 DEF OnlyAns
  <2> QED
    BY <1>1, <1>3, <1>8, <2>1 DEF OnlyAns
<1>9. Still => Still'
  BY <1>1, <1>2, <1>3, <1>4, <1>6, <1>7 DEF Still
<1>10. ASSUME NEW c \in Middle, NEW s \in {"draining", "wakeup"}
       PROVE /\ \A j \in 1 .. c, slot \in Slot : Asking(c, s, j, slot) => Asking(c, s, j, slot)'
             /\ \A u \in 0 .. c - 1 :
                  /\ Waiting(c, s, u) => Waiting(c, s, u)'
                  /\ \A j \in u .. c - 1, slot \in Slot : Answering(c, s, u, j, slot) => Answering(c, s, u, j, slot)'
                  /\ Agreed(c, s, u) => Agreed(c, s, u)'
                  /\ \A j \in u + 1 .. c, slot \in Slot : Telling(c, s, u, j, slot) => Telling(c, s, u, j, slot)'
  <2>1. ASSUME NEW j \in 1 .. c, NEW slot \in Slot, Asking(c, s, j, slot) PROVE Asking(c, s, j, slot)'
    <3> DEFINE a == [src |-> s, new |-> s]
    <3>1. a # NoAnn /\ j \in Pos
      BY StretchType, AnnType DEF Announcement, PowerState
    <3>2. OnlyAnn(j, slot, a)
      BY <2>1 DEF Asking
    <3> HIDE DEF a
    <3>3. OnlyAnn(j, slot, a)'
      BY <1>5, <3>1, <3>2
    <3>4. OnlyAnn(j, slot, [src |-> s, new |-> s])'
      BY <3>3 DEF a
    <3> QED
      BY <1>1, <1>2, <1>3, <1>4, <1>7, <2>1, <3>4 DEF Asking
  <2>2. ASSUME NEW u \in 0 .. c - 1, Waiting(c, s, u) PROVE Waiting(c, s, u)'
    BY <1>1, <1>2, <1>3, <1>4, <1>6, <1>7, <2>2 DEF Waiting
  <2>3. ASSUME NEW u \in 0 .. c - 1, NEW j \in u .. c - 1, NEW slot \in Slot, Answering(c, s, u, j, slot)
        PROVE  Answering(c, s, u, j, slot)'
    <3>1. OnlyAns(j, slot)' /\ slot # "in"
      BY <1>8, <2>3 DEF Answering
    <3> QED
      BY <1>1, <1>2, <1>3, <1>4, <1>6, <2>3, <3>1 DEF Answering
  <2>4. ASSUME NEW u \in 0 .. c - 1, Agreed(c, s, u) PROVE Agreed(c, s, u)'
    BY <1>1, <1>2, <1>3, <1>4, <1>6, <1>7, <2>4 DEF Agreed
  <2>5. ASSUME NEW u \in 0 .. c - 1, NEW j \in u + 1 .. c, NEW slot \in Slot, Telling(c, s, u, j, slot)
        PROVE  Telling(c, s, u, j, slot)'
    <3> DEFINE a == [src |-> power[c], new |-> "on"]
    <3>1. power[c] \in PowerState /\ j \in Pos
      <4>1. c \in Pos /\ j \in Pos
        BY StretchType
      <4> QED
        BY <4>1, Typed DEF Inv
    <3>2. a # NoAnn
      BY <3>1, AnnType DEF Announcement, PowerState
    <3>3. OnlyAnn(j, slot, a) /\ a' = a
      BY <1>1, <2>5 DEF Telling
    <3> HIDE DEF a
    <3>4. OnlyAnn(j, slot, a)' /\ slot # "in"
      BY <1>5, <3>1, <3>2, <3>3
    <3>5. OnlyAnn(j, slot, [src |-> power[c], new |-> "on"])'
      <4>1. annOut' = [i \in Pos |-> IF slot = "out" /\ i = j THEN a ELSE NoAnn]
            /\ ann' = [i \in Pos |-> IF slot = "wire" /\ i = j THEN a ELSE NoAnn]
        BY <3>3, <3>4 DEF OnlyAnn
      <4>2. a = [src |-> power'[c], new |-> "on"]
        BY <1>1 DEF a
      <4> QED
        BY <1>1, <3>4, <4>1, <4>2 DEF OnlyAnn
    <3> QED
      BY <1>1, <1>2, <1>3, <1>4, <1>7, <2>5, <3>5 DEF Telling
  <2> QED
    BY <2>1, <2>2, <2>3, <2>4, <2>5
<1>11. Handshake
  BY DEF Inv
<1> QED
  BY <1>9, <1>10, <1>11 DEF Handshake

(* An answer arrives: it is relayed, or it raises the tag.                 *)
LEMMA ReadAnswer ==
  ASSUME Inv, ReadInputs, NEW c \in Middle, NEW s \in {"draining", "wakeup"},
         NEW u \in 0 .. c - 1, NEW j \in u .. c - 1, Answering(c, s, u, j, "in")
  PROVE  Handshake' /\ \A i \in Pos : annIn[i] = NoAnn
<1>1. /\ phase = "read" /\ phase' = "power"
      /\ UNCHANGED <<power, left, buf, xbar, flitOut, flit, flitIn, ann, annIn, ans, ansIn>>
      /\ ansOut = {} /\ annOut = [i \in Pos |-> NoAnn] /\ flitOut = [i \in Pos |-> NoFlit]
  BY ReadFacts
<1>2. \A i \in Pos : annIn[i] = NoAnn
  BY <1>1 DEF Answering, NoAnns, OnlyAnn
<1>3. /\ UNCHANGED <<down, image, counter, sent, annOut>>
      /\ \A i : (Open(i)' <=> Open(i)) /\ (Hush(i)' <=> Hush(i))
      /\ \A i, n : Cycles(i, n)' <=> Cycles(i, n)
  BY <1>2, ReadNoAnn
<1>4. /\ \A k, r : Only(k, r)' <=> Only(k, r)
      /\ \A k, m, r : Seen(k, m, r)' <=> Seen(k, m, r)
      /\ \A k, m : Beyond(k, m)' <=> Beyond(k, m)
  BY <1>1, <1>3 DEF Only, Seen, Beyond
<1>5. NoAnns'
  BY <1>1, <1>3 DEF Answering, NoAnns, OnlyAnn
<1>6. ansIn = {j} /\ ans = {} /\ tag = {} /\ sent = {u} /\ Only(c, s) /\ Beyond(u, c) /\ Seen(u, c, s)
  BY <1>1 DEF Answering, OnlyAns
<1>7. /\ j \in Link /\ j \in Pos /\ j + 1 \in Pos /\ j + 1 > 0 /\ (j + 1) - 1 = j /\ j + 1 <= c
      /\ j \in Int /\ c \in Int /\ u \in Int /\ u <= j /\ c < Last /\ c \in Pos /\ u >= 0
  BY StretchType
<1>8. \A i \in Pos : Answered(i) <=> i = j + 1
  BY <1>6, <1>7, PosType DEF Answered
<1>9. Hush(j) /\ Flits(j) = 0
  <2>1. Flit1(j) = NoFlit /\ flit[j] = NoFlit /\ flitOut[j] = NoFlit /\ xbar[j] = NoFlit
    BY DEF Answering, Flit1
  <2> QED
    BY <2>1, Counts DEF Hush, Answering
<1>10. \A i \in u .. j : Hush(i)'
  <2>1. \A i \in u .. j : i = j \/ i \in u .. j - 1
    BY <1>7
  <2>2. \A i \in u .. j : Hush(i)
    BY <1>9, <2>1 DEF Answering
  <2> QED
    BY <1>3, <2>2
<1>11. CASE j + 1 = c
  <2>1. tag' = {c} /\ ansOut' = {}
    <3>1. power[c] \in {"draining", "wakeup"} /\ power[c] # "off"
      BY <1>6 DEF Only
    <3>2. tag' = {i \in Pos : i = c}
      BY <1>6, <1>8, <1>11, <3>1 DEF ReadInputs
    <3>3. ansOut' = {}
      BY <1>8, <1>11, <3>1 DEF ReadInputs
    <3> QED
      BY <1>7, <3>2, <3>3
  <2>2. NoAnswer'
    BY <1>1, <1>6, <2>1 DEF NoAnswer, OnlyAns
  <2>3. \A i \in u .. c - 1 : Hush(i)'
    BY <1>7, <1>10, <1>11
  <2>4. \A m \in Pos : Cycles(m, IF m \in u + 1 .. c - 1 THEN 11 ELSE 3)'
    <3>1. ASSUME NEW m \in Pos PROVE Cycles(m, IF m \in u + 1 .. c - 1 THEN 11 ELSE 3)
      <4>1. m \in Int /\ 9 + Delay("in") = 11
        BY PosType DEF Delay
      <4>2. CASE m \in u + 1 .. c - 1
        <5>1. m \in u + 1 .. j /\ m \notin j + 1 .. c - 1
          BY <1>7, <1>11, <4>1, <4>2
        <5>2. Cycles(m, 9 + Delay("in"))
          BY <4>2, <5>1 DEF Answering
        <5> QED
          BY <4>1, <4>2, <5>2
      <4>3. CASE m \notin u + 1 .. c - 1
        <5>1. m \notin u + 1 .. j /\ m \notin j + 1 .. c - 1
          BY <1>7, <1>11, <4>1, <4>3
        <5>2. Cycles(m, 3)
          BY <4>3, <5>1 DEF Answering
        <5> QED
          BY <4>3, <5>2
      <4> QED
        BY <4>2, <4>3
    <3> QED
      BY <1>3, <3>1
  <2>5. Agreed(c, s, u)'
    BY <1>3, <1>4, <1>5, <1>6, <2>1, <2>2, <2>3, <2>4 DEF Agreed
  <2> QED
    BY <1>2, <2>5, Stages
<1>12. CASE j + 1 # c
  <2>1. j + 1 \in u + 1 .. c - 1 /\ j + 1 \in u .. c - 1
    BY <1>7, <1>12
  <2>2. power[j + 1] = "off" /\ down[j + 1] = s
    BY <1>6, <1>7, <2>1 DEF Beyond, Seen
  <2>3. tag' = {} /\ ansOut' = {j + 1}
    <3>1. tag' = {}
      BY <1>6, <1>8, <2>2 DEF ReadInputs
    <3>2. ansOut' = {i \in Pos : i = j + 1}
      BY <1>3, <1>8, <2>2 DEF ReadInputs
    <3> QED
      BY <1>7, <3>1, <3>2
  <2>4. OnlyAns(j + 1, "out")'
    BY <1>1, <1>6, <2>3 DEF OnlyAns
  <2>5. /\ left'[j + 1] = 0 /\ ~Open(j + 1)' /\ xbar'[j + 1] = NoFlit /\ flitOut'[j + 1] = NoFlit
    <3>1. left[j + 1] = 0 /\ xbar[j + 1] = NoFlit /\ flitOut[j + 1] = NoFlit
      BY <1>1, <1>7, <2>2 DEF Inv, Rest, Bypassed
    <3>2. InOrder(j)
      BY <1>7, <2>2 DEF Inv, PacketsOK, Bypassed
    <3>3. Open(j + 1) <=> Open(j)
      BY <1>9, <3>2, Counts DEF InOrder, OpenAfter, Open1, Open2, Open3
    <3>4. ~Open(j + 1)
      BY <1>9, <3>3 DEF Hush
    <3> QED
      BY <1>1, <1>3, <3>1, <3>4
  <2>6. \A i \in u .. (j + 1) - 1 : Hush(i)'
    BY <1>7, <1>10
  <2>7. \A m \in Pos : Cycles(m, CASE m \in u + 1 .. j + 1 -> 9 + Delay("out")
                                   [] m \in (j + 1) + 1 .. c - 1 -> 7 + Delay("out")
                                   [] m \notin u + 1 .. c - 1 -> 3)'
    <3>1. ASSUME NEW m \in Pos
          PROVE  Cycles(m, CASE m \in u + 1 .. j + 1 -> 9 + Delay("out")
                                   [] m \in (j + 1) + 1 .. c - 1 -> 7 + Delay("out")
                                   [] m \notin u + 1 .. c - 1 -> 3)
      <4>1. m \in Int /\ 9 + Delay("in") = 11 /\ 7 + Delay("in") = 9 /\ 9 + Delay("out") = 9 /\ 7 + Delay("out") = 7
        BY PosType DEF Delay
      <4>2. image[m].occ \in Nat /\ counter[m] \in Nat /\ Size \in Nat /\ Bit(phase = "write") = 0
        BY <1>1, Typed, PosType DEF Inv, Bit
      <4>3. CASE m \in u + 1 .. j
        <5>1. m \in u + 1 .. j + 1 /\ m \notin (j + 1) + 1 .. c - 1 /\ m \in u + 1 .. c - 1 /\ m \notin j + 1 .. c - 1
          BY <1>7, <4>1, <4>3
        <5>2. Cycles(m, 11)
          BY <4>1, <4>3, <5>1 DEF Answering
        <5>3. Cycles(m, 9)
          BY <4>2, <5>2 DEF Cycles
        <5> QED
          BY <4>1, <5>1, <5>3
      <4>4. CASE m \in j + 1 .. c - 1
        <5>1. m \notin u + 1 .. j /\ m \in u + 1 .. c - 1
          BY <1>7, <4>1, <4>4
        <5>2. Cycles(m, 9)
          BY <4>1, <4>4, <5>1 DEF Answering
        <5>3. Cycles(m, 7)
          BY <4>2, <5>2 DEF Cycles
        <5>4. CASE m = j + 1
          <6>1. m \in u + 1 .. j + 1 /\ m \notin (j + 1) + 1 .. c - 1
            BY <1>7, <4>1, <5>4
          <6> QED
            BY <4>1, <5>1, <5>2, <6>1
        <5>5. CASE m # j + 1
          <6>1. m \notin u + 1 .. j + 1 /\ m \in (j + 1) + 1 .. c - 1
            BY <1>7, <4>1, <4>4, <5>5
          <6> QED
            BY <4>1, <5>1, <5>3, <6>1
        <5> QED
          BY <5>4, <5>5
      <4>5. CASE m \notin u + 1 .. c - 1
        <5>1. m \notin u + 1 .. j /\ m \notin j + 1 .. c - 1 /\ m \notin u + 1 .. j + 1 /\ m \notin (j + 1) + 1 .. c - 1
          BY <1>7, <2>1, <4>1, <4>5
        <5>2. Cycles(m, 3)
          BY <4>5, <5>1 DEF Answering
        <5> QED
          BY <4>5, <5>1, <5>2
      <4>6. m \in u + 1 .. j \/ m \in j + 1 .. c - 1 \/ m \notin u + 1 .. c - 1
        BY <1>7, <4>1
      <4> QED
        BY <4>3, <4>4, <4>5, <4>6
    <3> QED
      BY <1>3, <3>1
  <2>8. Answering(c, s, u, j + 1, "out")'
    BY <1>3, <1>4, <1>5, <1>6, <2>3, <2>4, <2>5, <2>6, <2>7 DEF Answering
  <2>9. "out" \in Slot
    BY DEF Slot
  <2> QED
    BY <1>2, <2>1, <2>8, <2>9, Stages
<1> QED
  BY <1>2, <1>11, <1>12

(* A router learns that the next one drains or wakes up.                   *)
LEMMA ReadAsking ==
  ASSUME Inv, ReadInputs, NEW c \in Middle, NEW s \in {"draining", "wakeup"},
         NEW j \in 1 .. c, Asking(c, s, j, "in")
  PROVE  Handshake' /\ \A i \in Link : SlotsOK(i)' /\ PacketsOK(i)'
<1> DEFINE a == [src |-> s, new |-> s]
           p == j - 1
<1>1. /\ phase = "read" /\ phase' = "power"
      /\ UNCHANGED <<power, left, buf, xbar, flitOut, flit, flitIn, credOut, cred, credIn,
                     ann, annIn, ans, ansIn>>
      /\ ansOut = {} /\ annOut = [i \in Pos |-> NoAnn]
      /\ FromEast(Last) = NoAnn /\ \A i \in Link : FromEast(i) = annIn[i + 1]
  BY ReadFacts
<1>2. /\ c \in Pos /\ j \in Pos /\ p \in Pos /\ p \in Link /\ p + 1 = j /\ p < j /\ j <= c /\ c < Last
      /\ c \in Int /\ j \in Int /\ p \in Int /\ j >= 1 /\ p >= 0
  BY StretchType DEF Pos, Link
<1>3. a \in Announcement /\ a # NoAnn /\ a.src = s /\ a.new = s
  BY AnnType DEF Announcement, PowerState
<1>4. /\ annIn = [i \in Pos |-> IF i = j THEN a ELSE NoAnn] /\ ann = [i \in Pos |-> NoAnn]
      /\ NoAnswer /\ tag = {} /\ sent = {} /\ Only(c, s) /\ Seen(j, c, s)
      /\ \A i \in j .. c - 1 : power[i] = "off"
  BY <1>1 DEF Asking, OnlyAnn
<1> HIDE DEF a, p
<1>5. \A i \in Pos : FromEast(i) = IF i = p THEN a ELSE NoAnn
  <2>1. \A i \in Pos : (i = Last \/ (i \in Link /\ i + 1 \in Pos)) /\ i \in Int
    BY FlyCreditsAssumption DEF Pos, Link
  <2>2. ASSUME NEW i \in Pos PROVE FromEast(i) = IF i = p THEN a ELSE NoAnn
    <3>1. CASE i = Last
      BY <1>1, <1>2, <3>1
    <3>2. CASE i # Last
      <4>1. i \in Link /\ i + 1 \in Pos /\ i \in Int
        BY <2>1, <3>2
      <4>2. i + 1 = j <=> i = p
        BY <1>2, <4>1
      <4> QED
        BY <1>1, <1>4, <4>1, <4>2
    <3> QED
      BY <3>1, <3>2
  <2> QED
    BY <2>2
<1>6. \A i \in Pos : ~WentOff(i) /\ ~WokeUp(i)
  BY <1>3, <1>5, AnnType DEF WentOff, WokeUp
<1>7. image' = image /\ counter' = counter
  <2>1. \A i \in Pos : ImageAfter(i) = image[i] /\ CounterAfter(i) = counter[i]
    BY <1>6 DEF ImageAfter, CounterAfter
  <2>2. image \in [Pos -> [occ : 0 .. 2 * Size, inUse : BOOLEAN, tail : BOOLEAN]] /\ counter \in [Pos -> 0 .. Size]
    BY DEF Inv, TypeOK
  <2> QED
    BY <2>1, <2>2 DEF ReadInputs
<1>8. Seen(p, c, s)'
  <2>1. down' = [i \in Pos |-> IF i = p THEN s ELSE down[i]]
    BY <1>3, <1>5 DEF ReadInputs
  <2>2. \A i \in Pos : i \in p .. c - 1 <=> i = p \/ i \in j .. c - 1
    BY <1>2, PosType
  <2> QED
    BY <1>4, <2>1, <2>2 DEF Seen
<1>9. sent' = {} /\ tag' = {} /\ ansOut' = {} /\ NoAnswer' /\ Only(c, s)'
  <2>1. ansIn = {} /\ ans = {}
    BY <1>1, <1>4 DEF NoAnswer, OnlyAns
  <2>2. sent' = {} /\ tag' = {} /\ ansOut' = {}
    BY <1>4, <2>1 DEF ReadInputs, Answered
  <2> QED
    BY <1>1, <1>4, <2>1, <2>2 DEF NoAnswer, OnlyAns, Only
<1>10. power[p] \in {"on", "off"} /\ annOut' = [i \in Pos |-> IF i = p /\ power[p] = "off" THEN a ELSE NoAnn]
  <2>1. power[p] \in {"on", "off"}
    BY <1>2, <1>4 DEF Only
  <2>2. \A i \in Pos : (IF power[i] \in Bypassed THEN FromEast(i) ELSE NoAnn)
                         = (IF i = p /\ power[p] = "off" THEN a ELSE NoAnn)
    BY <1>5, <2>1 DEF Bypassed
  <2> QED
    BY <2>1, <2>2 DEF ReadInputs
<1>11. ASSUME NEW m \in Pos, NEW n \in Nat, NEW k \in Nat, k <= n, Cycles(m, n) PROVE Cycles(m, k)'
  <2>1. image[m].occ \in Nat /\ counter[m] \in Nat /\ Size \in Nat /\ Bit(phase = "write") = 0 /\ Bit(phase' = "write") = 0
    BY <1>1, Typed, PosType DEF Inv, Bit
  <2>2. power' = power
    BY <1>1
  <2> QED
    BY <1>7, <1>11, <2>1, <2>2 DEF Cycles
<1>12. /\ \A m \in Pos : m < j => Cycles(m, 5)
       /\ \A m \in Pos : m \in j .. c - 1 => Cycles(m, 7)
       /\ \A m \in Pos : m >= c => Cycles(m, 3)
  <2>1. 3 + Delay("in") = 5 /\ 5 + Delay("in") = 7
    BY DEF Delay
  <2>2. ASSUME NEW m \in Pos
        PROVE /\ m < j => Cycles(m, 5)
              /\ m \in j .. c - 1 => Cycles(m, 7)
              /\ m >= c => Cycles(m, 3)
    <3>1. m \in Int
      BY PosType
    <3>2. Cycles(m, CASE m < j -> 3 + Delay("in") [] m \in j .. c - 1 -> 5 + Delay("in") [] m >= c -> 3)
      BY DEF Asking
    <3>3. CASE m < j
      BY <1>2, <2>1, <3>1, <3>2, <3>3
    <3>4. CASE m \in j .. c - 1
      BY <1>2, <2>1, <3>1, <3>2, <3>4
    <3>5. CASE m >= c
      BY <1>2, <2>1, <3>1, <3>2, <3>5
    <3> QED
      BY <1>2, <3>1, <3>3, <3>4, <3>5
  <2> QED
    BY <2>2
<1>13. ASSUME power[p] = "off" PROVE Handshake'
  <2>1. p >= 1 /\ p \in 1 .. c
    <3>1. p # 0
      BY <1>13 DEF Inv, Rest
    <3> QED
      BY <1>2, <3>1
  <2>2. \A i \in p .. c - 1 : power'[i] = "off"
    <3>1. \A i \in p .. c - 1 : i = p \/ i \in j .. c - 1
      BY <1>2
    <3> QED
      BY <1>1, <1>4, <1>13, <3>1
  <2>3. OnlyAnn(p, "out", a)'
    BY <1>1, <1>4, <1>10, <1>13 DEF OnlyAnn
  <2>4. ASSUME NEW m \in Pos
        PROVE  Cycles(m, CASE m < p -> 3 + Delay("out") [] m \in p .. c - 1 -> 5 + Delay("out") [] m >= c -> 3)'
    <3>1. m \in Int /\ 3 + Delay("out") = 3 /\ 5 + Delay("out") = 5
      BY PosType DEF Delay
    <3>2. CASE m < p
      <4>1. m < j /\ m \notin p .. c - 1 /\ ~(m >= c)
        BY <1>2, <3>1, <3>2
      <4>2. Cycles(m, 3)'
        BY <1>11, <1>12, <4>1
      <4> QED
        BY <3>1, <3>2, <4>1, <4>2
    <3>3. CASE m \in p .. c - 1
      <4>1. (m < j \/ m \in j .. c - 1) /\ ~(m < p) /\ ~(m >= c)
        BY <1>2, <3>1, <3>3
      <4>2. Cycles(m, 5)'
        BY <1>11, <1>12, <4>1
      <4> QED
        BY <3>1, <3>3, <4>1, <4>2
    <3>4. CASE m >= c
      <4>1. ~(m < p) /\ m \notin p .. c - 1
        BY <1>2, <3>1, <3>4
      <4>2. Cycles(m, 3)'
        BY <1>11, <1>12, <3>4
      <4> QED
        BY <3>1, <3>4, <4>1, <4>2
    <3> QED
      BY <1>2, <3>1, <3>2, <3>3, <3>4
  <2>5. OnlyAnn(p, "out", [src |-> s, new |-> s])'
    BY <2>3 DEF a
  <2>6. Asking(c, s, p, "out")'
    BY <1>8, <1>9, <2>2, <2>4, <2>5 DEF Asking
  <2>7. "out" \in Slot
    BY DEF Slot
  <2> QED
    BY <2>1, <2>6, <2>7, Stages
<1>14. ASSUME power[p] = "on" PROVE Handshake'
  <2>1. p \in 0 .. c - 1 /\ p + 1 .. c - 1 = j .. c - 1
    BY <1>2
  <2>2. Beyond(p, c)'
    BY <1>1, <1>4, <1>14, <2>1 DEF Beyond
  <2>3. NoAnns'
    BY <1>1, <1>4, <1>10, <1>14 DEF NoAnns, OnlyAnn
  <2>4. ASSUME NEW m \in Pos PROVE Cycles(m, IF m \in p + 1 .. c - 1 THEN 7 ELSE 3)'
    <3>1. m \in Int
      BY PosType
    <3>2. m < j \/ m \in j .. c - 1 \/ m >= c
      BY <1>2, <3>1
    <3>3. m \in j .. c - 1 => Cycles(m, 7)'
      BY <1>11, <1>12
    <3>4. m \notin j .. c - 1 => Cycles(m, 3)'
      <4>1. Cycles(m, 5) => Cycles(m, 3)'
        BY <1>11
      <4>2. Cycles(m, 3) => Cycles(m, 3)'
        BY <1>11
      <4> QED
        BY <1>12, <3>2, <4>1, <4>2
    <3> QED
      BY <2>1, <3>3, <3>4
  <2>5. Waiting(c, s, p)'
    BY <1>8, <1>9, <2>2, <2>3, <2>4 DEF Waiting
  <2> QED
    BY <2>1, <2>5, Stages
<1>15. ASSUME NEW i \in Link PROVE SlotsOK(i)' /\ PacketsOK(i)'
  <2>1. i \in Pos /\ i + 1 \in Pos
    BY PosType
  <2>2. SlotsOK(i) /\ PacketsOK(i)
    BY DEF Inv
  <2>3. NoAnn.src # "on" /\ NoAnn.src # "off" /\ a.src # "on" /\ a.src # "off"
    BY <1>3, AnnType
  <2>4. ~Live(i + 1, "on") /\ ~Live(i + 1, "off")
    BY <1>1, <1>4, <2>1, <2>3 DEF Live
  <2>5. ~Live(i + 1, "on")' /\ ~Live(i + 1, "off")'
    BY <1>1, <1>4, <1>10, <2>1, <2>3 DEF Live
  <2>6. {power[i], power[i + 1], power'[i], power'[i + 1]} \subseteq PowerState
    BY <1>1, <2>1, Typed DEF Inv
  <2> QED
    BY <1>1, <1>7, <2>1, <2>2, <2>4, <2>5, <2>6, LinkStays
<1> QED
  BY <1>10, <1>13, <1>14, <1>15

(* A router learns that the next one went off, or came on.                 *)
LEMMA ReadTelling ==
  ASSUME Inv, ReadInputs, NEW c \in Middle, NEW s \in {"draining", "wakeup"},
         NEW u \in 0 .. c - 1, NEW j \in u + 1 .. c, Telling(c, s, u, j, "in"), Size <= 13
  PROVE  Handshake' /\ \A i \in Link : SlotsOK(i)' /\ PacketsOK(i)'
<1> DEFINE t == IF s = "draining" THEN "off" ELSE "on"
           a == [src |-> t, new |-> "on"]
           p == j - 1
<1>1. /\ phase = "read" /\ phase' = "power"
      /\ UNCHANGED <<power, left, buf, xbar, flitOut, flit, flitIn, credOut, cred, credIn,
                     ann, annIn, ans, ansIn>>
      /\ ansOut = {} /\ annOut = [i \in Pos |-> NoAnn] /\ credOut = {}
      /\ FromEast(Last) = NoAnn /\ \A i \in Link : FromEast(i) = annIn[i + 1]
  BY ReadFacts
<1>2. /\ c \in Pos /\ j \in Pos /\ p \in Pos /\ p \in Link /\ p + 1 = j /\ p < j /\ j <= c /\ c < Last
      /\ c \in Int /\ j \in Int /\ p \in Int /\ u \in Int /\ u <= p /\ u >= 0 /\ j >= 1
      /\ p \in u .. c - 1 /\ p \in u .. j - 1
  <2>1. c \in Nat /\ c >= 1 /\ c < Last /\ c \in Pos /\ Last \in Nat
    BY StretchType, PosType
  <2>2. u \in Int /\ j \in Int /\ u >= 0 /\ u < j /\ j <= c
    BY <2>1
  <2> QED
    BY <2>1, <2>2 DEF Pos, Link
<1>3. /\ t \in {"on", "off"} /\ a \in Announcement /\ a # NoAnn /\ a.src = t /\ a.new = "on"
  BY AnnType DEF Announcement, PowerState
<1>4. /\ annIn = [i \in Pos |-> IF i = j THEN a ELSE NoAnn] /\ ann = [i \in Pos |-> NoAnn]
      /\ NoAnswer /\ tag = {} /\ sent = {u} /\ Steady /\ Beyond(u, c) /\ Seen(u, j, s) /\ power[c] = t
      /\ \A i \in u .. c - 1 : Hush(i)
  BY <1>1 DEF Telling, OnlyAnn
<1>5. t = "off" <=> s = "draining"
  OBVIOUS
<1> HIDE DEF a, p, t
<1>6. \A i \in Pos : FromEast(i) = IF i = p THEN a ELSE NoAnn
  <2>1. \A i \in Pos : (i = Last \/ (i \in Link /\ i + 1 \in Pos)) /\ i \in Int
    BY FlyCreditsAssumption DEF Pos, Link
  <2>2. ASSUME NEW i \in Pos PROVE FromEast(i) = IF i = p THEN a ELSE NoAnn
    <3>1. CASE i = Last
      BY <1>1, <1>2, <3>1
    <3>2. CASE i # Last
      <4>1. i \in Link /\ i + 1 \in Pos /\ i \in Int
        BY <2>1, <3>2
      <4>2. i + 1 = j <=> i = p
        BY <1>2, <4>1
      <4> QED
        BY <1>1, <1>4, <4>1, <4>2
    <3> QED
      BY <3>1, <3>2
  <2> QED
    BY <2>2
<1>7. down[p] = s
  BY <1>2, <1>4 DEF Seen
<1>8. /\ \A i \in Pos : i # p => ~WentOff(i) /\ ~WokeUp(i)
      /\ (WentOff(p) <=> t = "off") /\ (WokeUp(p) <=> t = "on")
  BY <1>2, <1>3, <1>5, <1>6, <1>7, AnnType DEF WentOff, WokeUp
<1>9. power[p] = IF p = u THEN "on" ELSE "off"
  <2>1. p = u \/ p \in u + 1 .. c - 1
    BY <1>2
  <2>2. u \notin u + 1 .. c - 1
    BY <1>2
  <2> QED
    BY <1>4, <2>1, <2>2 DEF Beyond
<1>10. /\ \A i \in Pos : i # p => image'[i] = image[i] /\ counter'[i] = counter[i]
       /\ image'[p] = IF t = "off" THEN ClearCredits(image[p]) ELSE FullCredits(image[p])
       /\ counter'[p] = IF p = u THEN counter[p] ELSE 0
  <2>1. \A i \in Pos : image'[i] = ImageAfter(i) /\ counter'[i] = CounterAfter(i)
    BY DEF ReadInputs
  <2>2. \A i \in Pos : i # p => ImageAfter(i) = image[i] /\ CounterAfter(i) = counter[i]
    BY <1>8 DEF ImageAfter, CounterAfter
  <2>3. ImageAfter(p) = IF t = "off" THEN ClearCredits(image[p]) ELSE FullCredits(image[p])
    BY <1>3, <1>8 DEF ImageAfter
  <2>4. CounterAfter(p) = IF p = u THEN counter[p] ELSE 0
    BY <1>3, <1>8, <1>9 DEF CounterAfter, Bypassed
  <2> QED
    BY <1>2, <2>1, <2>2, <2>3, <2>4
<1>11. Seen(u, p, s)'
  <2>1. down' = [i \in Pos |-> IF i = p THEN "on" ELSE down[i]]
    BY <1>3, <1>6 DEF ReadInputs
  <2>2. \A i \in Pos : (i \in u .. j - 1 <=> i = p \/ i \in u .. p - 1) /\ (i = p => i # Last /\ i \notin u .. p - 1)
    BY <1>2, PosType
  <2> QED
    BY <1>4, <2>1, <2>2 DEF Seen
<1>12. sent' = (IF p = u THEN {} ELSE {u}) /\ tag' = {} /\ NoAnswer' /\ Steady' /\ Beyond(u, c)'
  <2>1. ansIn = {} /\ ans = {}
    BY <1>1, <1>4 DEF NoAnswer, OnlyAns
  <2>2. tag' = {} /\ ansOut' = {}
    BY <1>4, <2>1 DEF ReadInputs, Answered
  <2>3. sent' = IF p = u THEN {} ELSE {u}
    <3>1. sent' = {i \in {u} : FromEast(i) = NoAnn}
      BY <1>4 DEF ReadInputs
    <3>2. u \in Pos
      BY <1>2, PosType DEF Pos
    <3> QED
      BY <1>3, <1>6, <3>1, <3>2
  <2> QED
    BY <1>1, <1>4, <2>1, <2>2, <2>3 DEF NoAnswer, OnlyAns, Steady, Beyond
<1>13. annOut' = [i \in Pos |-> IF i = p /\ p # u THEN a ELSE NoAnn]
  <2>1. \A i \in Pos : (IF power[i] \in Bypassed THEN FromEast(i) ELSE NoAnn)
                         = (IF i = p /\ p # u THEN a ELSE NoAnn)
    BY <1>6, <1>9 DEF Bypassed
  <2> QED
    BY <2>1 DEF ReadInputs
<1>14. ~Open(p)' /\ \A i \in u .. c - 1 : Hush(i)'
  <2>1. left[p] = 0
    BY <1>2, <1>4 DEF Hush
  <2>2. ~Open(p)'
    <3>1. CASE p = u
      BY <1>1, <1>9, <2>1, <3>1 DEF Open, Idle
    <3>2. CASE p # u
      <4>1. power'[p] \notin Idle
        BY <1>1, <1>9, <3>2 DEF Idle
      <4>2. ~image'[p].inUse \/ image'[p].tail
        BY <1>10 DEF ClearCredits, FullCredits
      <4> QED
        BY <4>1, <4>2 DEF Open
    <3> QED
      BY <3>1, <3>2
  <2>3. Hush(p)'
    <3>1. Flits(p)' = Flits(p)
      BY <1>1, NoFlitMoves
    <3> QED
      BY <1>1, <1>2, <1>4, <2>2, <3>1 DEF Hush
  <2>4. ASSUME NEW i \in u .. c - 1, i # p PROVE Hush(i)'
    <3>1. i \in Pos
      BY <1>2, StretchType
    <3>2. image'[i] = image[i] /\ (power[i] \in Idle <=> power'[i] \in Idle) /\ Hush(i)
      BY <1>1, <1>4, <1>10, <2>4, <3>1
    <3> QED
      BY <1>1, <3>2, HushStays
  <2> QED
    BY <2>2, <2>3, <2>4
<1>15. ASSUME NEW m \in Pos, NEW n \in Nat, NEW k \in Nat, k <= n, Cycles(m, n) PROVE m # p => Cycles(m, k)'
  <2>1. image[m].occ \in Nat /\ counter[m] \in Nat /\ Size \in Nat /\ Bit(phase = "write") = 0 /\ Bit(phase' = "write") = 0
    BY <1>1, Typed, PosType DEF Inv, Bit
  <2>2. power' = power
    BY <1>1
  <2> QED
    BY <1>10, <1>15, <2>1, <2>2 DEF Cycles
<1>16. \A m \in Pos : /\ m \in u + 1 .. j - 1 => Cycles(m, 13)
                      /\ m \notin u + 1 .. j - 1 => Cycles(m, 2)
  <2>1. 11 + Delay("in") = 13 /\ Delay("in") = 2
    BY DEF Delay
  <2> QED
    BY <2>1 DEF Telling
<1>17. \A n \in Nat : Cycles(p, n)'
  <2>1. power'[p] \in Bypassed => counter'[p] = 0
    BY <1>1, <1>9, <1>10 DEF Bypassed
  <2> QED
    BY <2>1 DEF Cycles
<1>18. p # u => counter[p] = 0
  <2>1. image[p].occ \in Nat /\ counter[p] \in Nat /\ Size \in Nat /\ Bit(phase = "write") = 0
    BY <1>1, <1>2, Typed, PosType DEF Inv, Bit
  <2>2. p # u => p \in u + 1 .. j - 1 /\ power[p] \in Bypassed
    BY <1>2, <1>9 DEF Bypassed
  <2> QED
    BY <1>2, <1>16, <2>1, <2>2 DEF Cycles
<1>19. Handshake'
  <2>1. CASE p = u
    <3>1. NoAnns'
      BY <1>1, <1>4, <1>13, <2>1 DEF NoAnns, OnlyAnn
    <3>2. Seen(0, 0, "on")'
      <4>1. \A i \in Pos : i \notin u .. p - 1 /\ i \notin 0 .. 0 - 1
        BY <1>2, <2>1, PosType
      <4> QED
        BY <1>11, <4>1 DEF Seen
    <3>3. \A m \in Pos : Cycles(m, 2)'
      <4>1. u + 1 .. j - 1 = {}
        BY <1>2, <2>1
      <4> QED
        BY <1>15, <1>16, <1>17, <4>1
    <3>4. ~ \A i \in Pos : annIn'[i] = NoAnn
      BY <1>1, <1>2, <1>3, <1>4
    <3>5. Still'
      BY <1>12, <2>1, <3>1, <3>2, <3>3, <3>4 DEF Still
    <3> QED
      BY <3>5 DEF Handshake
  <2>2. CASE p # u
    <3>1. p \in u + 1 .. c
      BY <1>2, <2>2
    <3>2. OnlyAnn(p, "out", a)'
      BY <1>1, <1>4, <1>13, <2>2 DEF OnlyAnn
    <3>3. OnlyAnn(p, "out", [src |-> power[c], new |-> "on"])'
      <4>1. a = [src |-> power'[c], new |-> "on"]
        BY <1>1, <1>4 DEF a
      <4>2. /\ annOut' = [i \in Pos |-> IF i = p THEN a ELSE NoAnn] /\ ann' = [i \in Pos |-> NoAnn]
        BY <1>1, <1>4, <1>13, <2>2
      <4> QED
        BY <1>1, <4>1, <4>2 DEF OnlyAnn
    <3>4. ASSUME NEW m \in Pos
          PROVE  Cycles(m, IF m \in u + 1 .. p - 1 THEN 11 + Delay("out") ELSE Delay("out"))'
      <4>1. m \in Int /\ 11 + Delay("out") = 11 /\ Delay("out") = 0
        BY PosType DEF Delay
      <4>2. CASE m = p
        <5>1. m \notin u + 1 .. p - 1
          BY <1>2, <4>2
        <5> QED
          BY <1>17, <4>1, <4>2, <5>1
      <4>3. CASE m # p /\ m \in u + 1 .. j - 1
        <5>1. m \in u + 1 .. p - 1
          BY <1>2, <4>1, <4>3
        <5>2. Cycles(m, 11)'
          BY <1>15, <1>16, <4>3
        <5> QED
          BY <4>1, <5>1, <5>2
      <4>4. CASE m # p /\ m \notin u + 1 .. j - 1
        <5>1. m \notin u + 1 .. p - 1
          BY <1>2, <4>1, <4>4
        <5>2. Cycles(m, 0)'
          BY <1>15, <1>16, <4>4
        <5> QED
          BY <4>1, <5>1, <5>2
      <4> QED
        BY <4>2, <4>3, <4>4
    <3>5. power'[c] = IF s = "draining" THEN "off" ELSE "on"
      BY <1>1, <1>4 DEF t
    <3>6. Telling(c, s, u, p, "out")'
      BY <1>11, <1>12, <1>14, <2>2, <3>3, <3>4, <3>5 DEF Telling
    <3>7. "out" \in Slot
      BY DEF Slot
    <3> QED
      BY <3>1, <3>6, <3>7, Stages
  <2> QED
    BY <2>1, <2>2
<1>20. \A i \in Pos, src \in {"on", "off"} :
         /\ Live(i, src) <=> i = j /\ src = t
         /\ Live(i, src)' <=> i = p /\ p # u /\ src = t
  <2>1. NoAnn.src # "on" /\ NoAnn.src # "off"
    BY AnnType
  <2>2. \A i \in Pos, src \in {"on", "off"} : Live(i, src) <=> i = j /\ src = t
    BY <1>1, <1>3, <1>4, <2>1 DEF Live
  <2>3. \A i \in Pos, src \in {"on", "off"} : Live(i, src)' <=> i = p /\ p # u /\ src = t
    BY <1>1, <1>3, <1>4, <1>13, <2>1 DEF Live
  <2> QED
    BY <2>2, <2>3
<1>21. j # p /\ j \in Pos /\ power[j] = (IF j = c THEN t ELSE "off") /\ power[j] \in PowerState /\ (j # c => j \in u .. c - 1)
  <2>1. j # c => j \in u + 1 .. c - 1 /\ j \in u .. c - 1
    BY <1>2
  <2> QED
    BY <1>2, <1>3, <1>4, <2>1 DEF Beyond, PowerState
<1>22. /\ Flits(p) = 0 /\ left[p] = 0 /\ ~Open(p)
       /\ Flits(p)' = 0 /\ Creds(j)' = Creds(j) /\ Use(j)' = Use(j)
       /\ Flit1(p)' = NoFlit /\ flit'[p] = NoFlit /\ flitOut'[p] = NoFlit /\ xbar'[p] = NoFlit
       /\ Flit1(p) = NoFlit /\ flit[p] = NoFlit /\ flitOut[p] = NoFlit /\ xbar[p] = NoFlit
       /\ left'[p] = 0
  <2>1. Flits(p) = 0 /\ left[p] = 0 /\ ~Open(p)
    BY <1>2, <1>4 DEF Hush
  <2>2. /\ Flits(p)' = 0 /\ Creds(j)' = Creds(j)
        /\ Flit1(p)' = NoFlit /\ flit'[p] = NoFlit /\ flitOut'[p] = NoFlit /\ xbar'[p] = NoFlit
        /\ Flit1(p) = NoFlit /\ flit[p] = NoFlit /\ flitOut[p] = NoFlit /\ xbar[p] = NoFlit
    BY <1>1, <2>1, NoFlitMoves, Counts
  <2>3. Use(j)' = Use(j)
    BY <1>1, <1>10, <1>21 DEF Use
  <2> QED
    BY <1>1, <2>1, <2>2, <2>3
<1>23. Behind(j) = Creds(j)
  <2>1. annOut[j] = NoAnn /\ ann[j] = NoAnn
    BY <1>1, <1>2, <1>4
  <2>2. Bit(j \in credOut) \in 0 .. 1 /\ Bit(j \in cred) \in 0 .. 1 /\ Bit(Cred1(j)) \in 0 .. 1
    BY DEF Bit
  <2> QED
    BY <2>1, <2>2 DEF Behind, Creds
<1>24. /\ image[p].occ \in Nat /\ Size \in Nat /\ Size >= 1 /\ Creds(j) \in Nat
       /\ SlotsOK(p) /\ PacketsOK(p) /\ p + 1 = j
  <2>1. Creds(j) \in 0 .. 3
    BY Counts
  <2>2. Creds(j) \in Nat
    BY <2>1
  <2>3. SlotsOK(p) /\ PacketsOK(p)
    BY <1>2 DEF Inv
  <2> QED
    BY <1>2, <2>2, <2>3, Typed, PosType DEF Inv
<1>25. (Live(j, "off") <=> t = "off") /\ (Live(j, "on") <=> t = "on") /\ ~Live(j, "off")' /\ ~Live(j, "on")'
  BY <1>20, <1>21
(* The image is exact from now on: nothing but free slots was in transit.  *)
<1>26. /\ t = "off" => image[p].occ = 0 /\ Use(j) + Creds(j) = Size
       /\ t = "on" => Use(j) = 0 /\ Creds(j) = 0
  <2>1. CASE t = "off"
    <3>1. Use(j) \in Nat
      <4>1. image[j].occ \in Nat /\ counter[j] \in Nat /\ buf[j] \in Nat
        BY <1>21, Typed DEF Inv
      <4> QED
        BY <4>1 DEF Use
    <3>2. image[p].occ + Creds(j) = Creds(j)
      BY <1>23, <1>24, <1>25, <2>1 DEF SlotsOK
    <3>3. image[p].occ + Size = Use(j) + Flits(p) + Creds(j)
      BY <1>24, <1>25, <2>1 DEF SlotsOK
    <3> QED
      BY <1>22, <1>24, <2>1, <3>1, <3>2, <3>3
  <2>2. CASE t = "on"
    BY <1>23, <1>24, <1>25, <2>2 DEF SlotsOK
  <2> QED
    BY <1>3, <2>1, <2>2
<1>27. image'[p].occ = (IF t = "off" THEN Size ELSE 0) /\ (t = "off" => Held(p)') /\ (t = "on" => ~image'[p].inUse)
  <2>1. CASE t = "off"
    BY <1>10, <1>24, <1>26, <2>1 DEF ClearCredits, Held
  <2>2. CASE t = "on"
    BY <1>10, <1>24, <1>26, <2>2 DEF FullCredits, Held
  <2> QED
    BY <1>3, <2>1, <2>2
<1>28. SlotsOK(p)'
  <2>1. CASE t = "off"
    <3>1. Use(j) + 0 + Creds(j) = Use(j) + Creds(j) /\ Size + 0 = Size
      <4>1. image[j].occ \in Nat /\ counter[j] \in Nat /\ buf[j] \in Nat
        BY <1>21, Typed DEF Inv
      <4> QED
        BY <1>24, <4>1 DEF Use
    <3> QED
      BY <1>22, <1>24, <1>25, <1>26, <1>27, <2>1, <3>1 DEF SlotsOK
  <2>2. CASE t = "on"
    BY <1>22, <1>24, <1>25, <1>26, <1>27, <2>2 DEF SlotsOK
  <2> QED
    BY <1>3, <2>1, <2>2
<1>29. PacketsOK(p)'
  <2>1. InOrder(p)' \/ power'[j] \notin Bypassed
    <3>1. CASE power[j] \in Bypassed
      <4>1. InOrder(p)
        BY <1>24, <3>1 DEF PacketsOK
      <4>2. Open(j) <=> Open(p)
        BY <1>22, <1>24, <4>1 DEF InOrder, OpenAfter, Open1, Open2, Open3
      <4>3. Open(j)' <=> Open(j)
        BY <1>1, <1>10, <1>21 DEF Open, AtHead
      <4> QED
        BY <1>14, <1>22, <1>24, <4>2, <4>3 DEF InOrder, Fits, OpenAfter, Open1, Open2, Open3
    <3> QED
      BY <1>1, <3>1
  <2>2. Alone(p)'
    BY <1>22, FlitType DEF Alone
  <2>3. Hush(p)'
    BY <1>2, <1>14
  <2>4. CASE t = "off"
    <3>1. image'[p].inUse /\ image'[p].tail /\ image'[p].occ > 0
      BY <1>24, <1>27, <2>4 DEF Held
    <3> QED
      BY <1>22, <1>24, <1>25, <1>27, <2>1, <2>2, <2>3, <2>4, <3>1 DEF PacketsOK
  <2>5. CASE t = "on"
    <3>1. image'[p].occ = 0 /\ ~image'[p].inUse /\ ~Held(p)'
      BY <1>24, <1>27, <2>5 DEF Held
    <3>2. power'[j] \in Bypassed => counter'[j] = 0 /\ ~Held(j)'
      <4>1. ASSUME power[j] \in Bypassed PROVE counter[j] = 0 /\ ~image[j].inUse
        <5>1. ~image[j].inUse
          BY <1>24, <1>25, <2>5, <4>1 DEF PacketsOK
        <5>2. image[j].occ \in Nat /\ counter[j] \in Nat
          BY <1>21, Typed DEF Inv
        <5>3. Use(j) = image[j].occ + counter[j]
          BY <4>1 DEF Use, Idle, Bypassed
        <5> QED
          BY <1>26, <2>5, <5>1, <5>2, <5>3
      <4> QED
        BY <1>1, <1>10, <1>21, <4>1 DEF Held
    <3>3. ~(counter'[j] > 0) \/ power'[j] \notin Bypassed
      BY <3>2
    <3> QED
      BY <1>22, <1>24, <1>25, <2>1, <2>2, <3>1, <3>2, <3>3 DEF PacketsOK
  <2> QED
    BY <1>3, <2>4, <2>5
<1>30. ASSUME NEW i \in Link, i # p, i + 1 # p \/ p = u
       PROVE  SlotsOK(i)' /\ PacketsOK(i)'
  <2>1. i \in Pos /\ i + 1 \in Pos /\ i + 1 # j
    <3>1. i \in Pos /\ i + 1 \in Pos /\ i \in Int
      BY PosType
    <3> QED
      BY <1>2, <1>30, <3>1
  <2>2. SlotsOK(i) /\ PacketsOK(i)
    BY DEF Inv
  <2>3. ~Live(i + 1, "on") /\ ~Live(i + 1, "off") /\ ~Live(i + 1, "on")' /\ ~Live(i + 1, "off")'
    BY <1>20, <1>30, <2>1
  <2>4. {power[i], power[i + 1], power'[i], power'[i + 1]} \subseteq PowerState
    BY <1>1, <2>1, Typed DEF Inv
  <2>5. power[i + 1] \in Idle \/ (image'[i + 1] = image[i + 1] /\ counter'[i + 1] = counter[i + 1])
    BY <1>9, <1>10, <1>30, <2>1 DEF Idle
  <2> QED
    BY <1>1, <1>10, <1>30, <2>1, <2>2, <2>3, <2>4, <2>5, LinkStays
<1>31. ASSUME NEW q \in Link, q + 1 = p, p # u
       PROVE  SlotsOK(q)' /\ PacketsOK(q)'
  <2>1. q \in Pos /\ q \in u .. c - 1 /\ q # p /\ p # j
    BY <1>2, <1>31, PosType
  <2>2. SlotsOK(q) /\ PacketsOK(q) /\ power[p] = "off" /\ power'[p] = "off"
    BY <1>1, <1>9, <1>31 DEF Inv
  <2>3. Flits(q) = 0 /\ left[q] = 0 /\ ~Open(q) /\ ~Open(q)' /\ Hush(q)'
    BY <1>4, <1>14, <2>1 DEF Hush
  <2>4. /\ Flits(q)' = 0 /\ Creds(p)' = Creds(p)
        /\ Flit1(q)' = NoFlit /\ flit'[q] = NoFlit /\ flitOut'[q] = NoFlit /\ xbar'[q] = NoFlit
        /\ Flit1(q) = NoFlit /\ flit[q] = NoFlit /\ flitOut[q] = NoFlit /\ xbar[q] = NoFlit
    BY <1>1, <2>3, NoFlitMoves, Counts
  <2>5. Behind(p)' = 0
    <3>1. credOut' = {} /\ annOut'[p] # NoAnn
      BY <1>1, <1>2, <1>3, <1>13, <1>31
    <3> QED
      BY <3>1 DEF Behind, Bit
  <2>6. /\ ~Live(p, "off") /\ ~Live(p, "on") /\ (Live(p, "off")' <=> t = "off") /\ (Live(p, "on")' <=> t = "on")
    BY <1>2, <1>20, <1>31, <2>1
  <2>7. image[q].occ \in Nat /\ image[p].occ \in Nat /\ Size \in Nat /\ Creds(p) \in Nat
    <3>1. Creds(p) \in 0 .. 3
      BY Counts
    <3>2. Creds(p) \in Nat
      BY <3>1
    <3> QED
      BY <1>2, <2>1, <3>2, Typed, PosType DEF Inv
  <2>8. image[q].occ = image[p].occ + Creds(p) /\ image[q].occ <= Size /\ Use(p) = image[p].occ
    <3>1. Use(p) = image[p].occ
      BY <1>18, <1>31, <2>2, <2>7 DEF Use, Idle
    <3> QED
      BY <1>31, <2>2, <2>3, <2>6, <2>7, <3>1 DEF SlotsOK
  <2>9. Use(p)' = IF t = "off" THEN Size ELSE 0
    <3>1. Use(p)' = image'[p].occ + counter'[p] /\ counter'[p] = 0
      BY <1>10, <1>31, <2>2 DEF Use, Idle
    <3> QED
      BY <1>27, <2>7, <3>1
  <2>10. image'[q] = image[q] /\ left'[q] = left[q]
    BY <1>1, <1>10, <2>1
  <2>11. SlotsOK(q)'
    <3>1. CASE t = "off"
      BY <1>26, <1>31, <2>4, <2>5, <2>6, <2>7, <2>8, <2>9, <2>10, <3>1 DEF SlotsOK
    <3>2. CASE t = "on"
      BY <1>31, <2>4, <2>5, <2>6, <2>7, <2>8, <2>9, <2>10, <3>2 DEF SlotsOK
    <3> QED
      BY <1>3, <3>1, <3>2
  <2>12. InOrder(q)'
    BY <1>14, <1>31, <2>3, <2>4 DEF InOrder, Fits, OpenAfter, Open1, Open2, Open3
  <2>13. Alone(q)'
    BY <2>3, <2>4, <2>10, FlitType DEF Alone
  <2>14. (Held(q)' <=> Held(q)) /\ power'[q] = power[q]
    BY <1>1, <2>10 DEF Held
  <2>15. t = "on" => counter'[p] = 0 /\ ~Held(p)' /\ ~image'[p].inUse
    BY <1>10, <1>27, <1>31 DEF Held
  <2>16. ~(counter'[p] > 0)
    BY <1>10, <1>31
  <2> QED
    BY <1>3, <1>31, <2>2, <2>3, <2>4, <2>6, <2>10, <2>11, <2>12, <2>13, <2>14, <2>15, <2>16 DEF PacketsOK
<1> QED
  BY <1>19, <1>28, <1>29, <1>30, <1>31

LEMMA ReadStep ==
  ASSUME Inv, ReadInputs, Size <= 13
  PROVE  Inv'
<1>1. Handshake /\ TypeOK' /\ Rest'
  BY ReadTypes DEF Inv
<1>2. Handshake' /\ \A i \in Link : SlotsOK(i)' /\ PacketsOK(i)'
  <2>1. phase = "read"
    BY DEF ReadInputs
  <2>2. ASSUME \A i \in Pos : annIn[i] = NoAnn, ansIn = {}
        PROVE  Handshake' /\ \A i \in Link : SlotsOK(i)' /\ PacketsOK(i)'
    BY <2>2, ReadNothing, ReadNoAnn
  <2>3. NoAnns => \A i \in Pos : annIn[i] = NoAnn
    BY <2>1 DEF NoAnns, OnlyAnn
  <2>4. NoAnswer => ansIn = {}
    BY <2>1 DEF NoAnswer, OnlyAns
  <2>5. \A j, slot, a : slot # "in" /\ OnlyAnn(j, slot, a) => \A i \in Pos : annIn[i] = NoAnn
    BY <2>1 DEF OnlyAnn
  <2>6. \A j, slot : slot # "in" /\ OnlyAns(j, slot) => ansIn = {}
    BY <2>1 DEF OnlyAns
  <2>7. CASE Still
    BY <2>2, <2>3, <2>4, <2>7 DEF Still
  <2>8. ASSUME NEW c \in Middle, NEW s \in {"draining", "wakeup"}, NEW j \in 1 .. c, NEW slot \in Slot,
               Asking(c, s, j, slot)
        PROVE  Handshake' /\ \A i \in Link : SlotsOK(i)' /\ PacketsOK(i)'
    <3>1. slot # "in" => \A i \in Pos : annIn[i] = NoAnn
      BY <2>5, <2>8 DEF Asking
    <3> QED
      BY <2>2, <2>4, <2>8, <3>1, ReadAsking DEF Asking
  <2>9. ASSUME NEW c \in Middle, NEW s \in {"draining", "wakeup"}, NEW u \in 0 .. c - 1,
               Waiting(c, s, u) \/ Agreed(c, s, u)
        PROVE  Handshake' /\ \A i \in Link : SlotsOK(i)' /\ PacketsOK(i)'
    BY <2>2, <2>3, <2>4, <2>9 DEF Waiting, Agreed
  <2>10. ASSUME NEW c \in Middle, NEW s \in {"draining", "wakeup"}, NEW u \in 0 .. c - 1,
               NEW j \in u .. c - 1, NEW slot \in Slot, Answering(c, s, u, j, slot)
        PROVE  Handshake' /\ \A i \in Link : SlotsOK(i)' /\ PacketsOK(i)'
    <3>1. CASE slot = "in"
      BY <2>10, <3>1, ReadAnswer, ReadNoAnn
    <3>2. CASE slot # "in"
      BY <2>2, <2>3, <2>6, <2>10, <3>2 DEF Answering
    <3> QED
      BY <3>1, <3>2
  <2>11. ASSUME NEW c \in Middle, NEW s \in {"draining", "wakeup"}, NEW u \in 0 .. c - 1,
                NEW j \in u + 1 .. c, NEW slot \in Slot, Telling(c, s, u, j, slot)
         PROVE  Handshake' /\ \A i \in Link : SlotsOK(i)' /\ PacketsOK(i)'
    <3>1. CASE slot = "in"
      BY <2>11, <3>1, ReadTelling
    <3>2. CASE slot # "in"
      BY <2>2, <2>4, <2>5, <2>11, <3>2 DEF Telling
    <3> QED
      BY <3>1, <3>2
  <2> QED
    BY <1>1, <2>7, <2>8, <2>9, <2>10, <2>11 DEF Handshake
<1>3. Link' = Link
  BY DEF Link
<1> QED
  BY <1>1, <1>2, <1>3 DEF Inv

-----------------------------------------------------------------------------
(* Evaluate.                                                               *)

(* What a router that is on or draining does with its packet.              *)
Takes(i)   == MayTake(i) /\ left'[i] = PacketSize[i] /\ image'[i] = TakeBuffer(Image1(i)) /\ xbar'[i] = NoFlit
Sends(i)   == MaySend(i) /\ left'[i] = left[i] - 1 /\ image'[i] = SendingFlit(Image1(i), Scheduled(i))
                /\ xbar'[i] = Scheduled(i)
Returns(i) == MayReturn(i) /\ left'[i] = 0 /\ image'[i] = ReturnBuffer(Image1(i)) /\ xbar'[i] = NoFlit
Rests(i)   == left'[i] = left[i] /\ image'[i] = Image1(i) /\ xbar'[i] = NoFlit

LEMMA EvalFacts ==
  ASSUME Inv, Evaluate
  PROVE  /\ phase = "eval" /\ phase' = "write"
         /\ UNCHANGED <<power, down, tag, annOut, flit, cred, ann, ans, flitIn, credIn, annIn, ansIn>>
         /\ credOut = {} /\ flitOut = [i \in Pos |-> NoFlit]
         /\ \A i \in Pos : power[i] \in Idle =>
              /\ Takes(i) \/ Sends(i) \/ Returns(i) \/ Rests(i)
              /\ flitOut'[i] = xbar[i] /\ counter'[i] = counter[i]
              /\ buf'[i] = buf[i] + Bit(Queued(i)) - Bit(i \in credOut')
              /\ i \in credOut' => buf[i] + Bit(Queued(i)) > 0
         /\ \A i \in Pos : power[i] \in Bypassed =>
              /\ left'[i] = 0 /\ buf'[i] = 0 /\ xbar[i] = NoFlit /\ xbar'[i] = NoFlit
              /\ image'[i] = FlownOver(i)
              /\ flitOut'[i] = IF Queued(i) THEN flitIn[i - 1] ELSE NoFlit
              /\ counter'[i] = counter[i] - Bit(HandsOver(i))
              /\ i \in credOut' <=> Credited(i) \/ HandsOver(i)
<1>1. /\ phase = "eval" /\ phase' = "write"
      /\ UNCHANGED <<power, down, tag, annOut, flit, cred, ann, ans, flitIn, credIn, annIn, ansIn>>
  BY DEF Evaluate, channels
<1>2. credOut = {} /\ flitOut = [i \in Pos |-> NoFlit]
  BY <1>1 DEF Inv, Rest
<1>3. PICK take \in SUBSET {i \in Pos : MayTake(i)},
           send \in SUBSET {i \in Pos : MaySend(i)},
           back \in SUBSET {i \in Pos : MayReturn(i)},
           free \in SUBSET {i \in Pos : MayFree(i)} :
       /\ left' = [i \in Pos |-> CASE i \in take -> PacketSize[i]
                                   [] i \in send -> left[i] - 1
                                   [] i \in back -> 0
                                   [] OTHER      -> left[i]]
       /\ packets' = [i \in Pos |-> IF i \in take THEN packets[i] + 1 ELSE packets[i]]
       /\ image' = [i \in Pos |->
                     CASE power[i] \in Bypassed -> FlownOver(i)
                       [] i \in take            -> TakeBuffer(Image1(i))
                       [] i \in send            -> SendingFlit(Image1(i), Scheduled(i))
                       [] i \in back            -> ReturnBuffer(Image1(i))
                       [] OTHER                 -> Image1(i)]
       /\ buf' = [i \in Pos |->
                   IF power[i] \in Bypassed THEN buf[i]
                   ELSE buf[i] + (IF Queued(i) THEN 1 ELSE 0) - (IF i \in free THEN 1 ELSE 0)]
       /\ xbar' = [i \in Pos |-> IF i \in send THEN Scheduled(i) ELSE NoFlit]
       /\ flitOut' = [i \in Pos |-> IF power[i] \in Bypassed
                                    THEN (IF Queued(i) THEN flitIn[i - 1] ELSE NoFlit)
                                    ELSE xbar[i]]
       /\ credOut' = {i \in Pos : \/ i \in free
                                  \/ power[i] \in Bypassed /\ Credited(i)
                                  \/ HandsOver(i)}
  BY DEF Evaluate
<1>4. counter' = [i \in Pos |-> IF HandsOver(i) THEN counter[i] - 1 ELSE counter[i]]
  BY DEF Evaluate
<1>5. ASSUME NEW i \in Pos, power[i] \in Idle
      PROVE  /\ Takes(i) \/ Sends(i) \/ Returns(i) \/ Rests(i)
             /\ flitOut'[i] = xbar[i] /\ counter'[i] = counter[i]
             /\ buf'[i] = buf[i] + Bit(Queued(i)) - Bit(i \in credOut')
             /\ i \in credOut' => buf[i] + Bit(Queued(i)) > 0
  <2>1. power[i] \notin Bypassed /\ ~HandsOver(i)
    BY <1>5 DEF Idle, Bypassed, HandsOver
  <2>2. left[i] \in Nat
    BY Typed DEF Inv
  <2>3. /\ i \in take => MayTake(i) /\ i \notin send /\ i \notin back
        /\ i \in send => MaySend(i) /\ i \notin back
        /\ i \in back => MayReturn(i)
    BY <2>2 DEF MayTake, MaySend, MayReturn
  <2>4. Takes(i) \/ Sends(i) \/ Returns(i) \/ Rests(i)
    <3>1. CASE i \in take
      BY <1>3, <2>1, <2>3, <3>1 DEF Takes
    <3>2. CASE i \in send
      BY <1>3, <2>1, <2>3, <3>2 DEF Sends
    <3>3. CASE i \in back
      BY <1>3, <2>1, <2>3, <3>3 DEF Returns
    <3>4. CASE i \notin take /\ i \notin send /\ i \notin back
      BY <1>3, <2>1, <3>4 DEF Rests
    <3> QED
      BY <3>1, <3>2, <3>3, <3>4
  <2>5. i \in credOut' <=> i \in free
    BY <1>3, <2>1
  <2>6. i \in free => MayFree(i)
    OBVIOUS
  <2> QED
    BY <1>3, <1>4, <2>1, <2>4, <2>5, <2>6 DEF Bit, MayFree
<1>6. ASSUME NEW i \in Pos, power[i] \in Bypassed
      PROVE  /\ left'[i] = 0 /\ buf'[i] = 0 /\ xbar[i] = NoFlit /\ xbar'[i] = NoFlit
             /\ image'[i] = FlownOver(i)
             /\ flitOut'[i] = IF Queued(i) THEN flitIn[i - 1] ELSE NoFlit
             /\ counter'[i] = counter[i] - Bit(HandsOver(i))
             /\ i \in credOut' <=> Credited(i) \/ HandsOver(i)
  <2>1. power[i] \notin Idle /\ left[i] = 0 /\ buf[i] = 0 /\ xbar[i] = NoFlit
    BY <1>6 DEF Idle, Bypassed, Inv, Rest
  <2>2. i \notin take /\ i \notin send /\ i \notin back /\ i \notin free
    BY <2>1 DEF MayTake, MaySend, MayReturn, MayFree
  <2>3. image'[i] = FlownOver(i)
    BY <1>3, <1>6, <2>2
  <2>4. counter[i] \in Nat
    BY Typed DEF Inv
  <2> QED
    BY <1>3, <1>4, <1>6, <2>1, <2>2, <2>3, <2>4 DEF Bit
<1> QED
  BY <1>1, <1>2, <1>5, <1>6

(* Announcements that a router went off or came on meet no flit.           *)
LEMMA LiveHush ==
  ASSUME Inv, phase = "eval", NEW i \in Link, NEW src \in {"on", "off"}, Live(i + 1, src)
  PROVE  Hush(i) /\ (power[i] \in Bypassed => ~Queued(i)) /\ (power[i] \in Idle => down[i] # "on")
<1>1. i \in Pos /\ i + 1 \in Pos /\ src \in PowerState /\ i \in Int
  BY PosType DEF PowerState
<1>2. ~NoAnns
  BY <1>1, NoAnnsLive
<1>3. \A c \in Middle, s \in {"draining", "wakeup"} : \A j \in 1 .. c, slot \in Slot : ~Asking(c, s, j, slot)
  <2>1. ASSUME NEW c \in Middle, NEW s \in {"draining", "wakeup"}, NEW j \in 1 .. c, NEW slot \in Slot,
               Asking(c, s, j, slot)
        PROVE  FALSE
    <3> DEFINE a == [src |-> s, new |-> s]
    <3>1. a \in Announcement /\ a.src # src /\ j \in Pos
      BY StretchType DEF Announcement, PowerState
    <3>2. OnlyAnn(j, slot, a)
      BY <2>1 DEF Asking
    <3> HIDE DEF a
    <3> QED
      BY <1>1, <3>1, <3>2, OnlyAnnLive
  <2> QED
    BY <2>1
<1>4. PICK c \in Middle, s \in {"draining", "wakeup"} :
        \/ \E j \in 1 .. c, slot \in Slot : Asking(c, s, j, slot)
        \/ \E u \in 0 .. c - 1 :
             \/ Waiting(c, s, u)
             \/ \E j \in u .. c - 1, slot \in Slot : Answering(c, s, u, j, slot)
             \/ Agreed(c, s, u)
             \/ \E j \in u + 1 .. c, slot \in Slot : Telling(c, s, u, j, slot)
  BY <1>2 DEF Inv, Handshake, Still
<1>5. \A u \in 0 .. c - 1 : /\ ~Waiting(c, s, u) /\ ~Agreed(c, s, u)
                             /\ \A j \in u .. c - 1, slot \in Slot : ~Answering(c, s, u, j, slot)
  BY <1>2 DEF Waiting, Answering, Agreed
<1>6. ~ \E j \in 1 .. c, slot \in Slot : Asking(c, s, j, slot)
  BY <1>3
<1>7. PICK u \in 0 .. c - 1 :
        \/ Waiting(c, s, u)
        \/ \E j \in u .. c - 1, slot \in Slot : Answering(c, s, u, j, slot)
        \/ Agreed(c, s, u)
        \/ \E j \in u + 1 .. c, slot \in Slot : Telling(c, s, u, j, slot)
  BY <1>4, <1>6
<1>8. PICK j \in u + 1 .. c, slot \in Slot : Telling(c, s, u, j, slot)
  BY <1>7, <1>5
<1>9. c \in Pos /\ c \in Int /\ c < Last
  BY StretchType
<1>10. u \in Int /\ j \in Int /\ u >= 0 /\ u < j /\ j <= c /\ j \in Pos
  <2>1. Last \in Nat
    BY PosType
  <2>2. u \in Int /\ j \in Int /\ u >= 0 /\ u < j /\ j <= c
    BY <1>9
  <2> QED
    BY <1>9, <2>1, <2>2 DEF Pos
<1>11. i + 1 = j
  <2> DEFINE a == [src |-> power[c], new |-> "on"]
  <2>1. a \in Announcement
    BY <1>9, Typed DEF Inv, Announcement, PowerState
  <2>2. OnlyAnn(j, slot, a)
    BY <1>8 DEF Telling
  <2> HIDE DEF a
  <2> QED
    BY <1>1, <1>10, <2>1, <2>2, OnlyAnnLive
<1>12. i \in u .. c - 1 /\ i \in u .. j - 1 /\ (i = u \/ (i - 1 \in u .. c - 1 /\ i \in u + 1 .. c - 1 /\ i > 0))
  BY <1>1, <1>9, <1>10, <1>11
<1>13. Hush(i) /\ down[i] = s
  BY <1>1, <1>8, <1>12 DEF Telling, Seen
<1>14. ASSUME power[i] \in Bypassed PROVE ~Queued(i)
  <2>1. i # u
    BY <1>8, <1>14 DEF Telling, Beyond, Bypassed
  <2>2. Hush(i - 1)
    BY <1>8, <1>12, <2>1 DEF Telling
  <2>3. flitIn[i - 1] = NoFlit
    BY <2>2, Counts DEF Hush, Flit1
  <2> QED
    BY <2>3 DEF Queued
<1> QED
  BY <1>13, <1>14

LEMMA UseType ==
  ASSUME Inv, NEW d \in Pos
  PROVE  /\ Use(d) \in Nat /\ Creds(d) \in Nat /\ Behind(d) \in Nat /\ Flits(d) \in Nat
         /\ image[d].occ \in Nat /\ counter[d] \in Nat /\ buf[d] \in Nat /\ left[d] \in Nat
         /\ Size \in Nat /\ PacketSize[d] \in Nat \ {0}
<1>1. image[d].occ \in Nat /\ counter[d] \in Nat /\ buf[d] \in Nat /\ left[d] \in Nat /\ PacketSize[d] \in Nat \ {0}
  BY Typed DEF Inv
<1>2. Creds(d) \in 0 .. 3 /\ Behind(d) \in 0 .. 3 /\ Flits(d) \in 0 .. 4
  BY Counts
<1>3. Creds(d) \in Nat /\ Behind(d) \in Nat /\ Flits(d) \in Nat
  BY <1>2
<1> QED
  BY <1>1, <1>3, PosType DEF Use

(* A credit comes back for a slot in use. *)
LEMMA CreditMeets ==
  ASSUME Inv, phase = "eval", NEW i \in Link, Credited(i)
  PROVE  /\ image[i].occ > 0
         /\ ~Live(i + 1, "on") /\ ~Live(i + 1, "off") => image[i].occ >= Use(i + 1) + Flits(i) + 1
<1>1. i \in Pos /\ i + 1 \in Pos
  BY PosType
<1>2. /\ Use(i + 1) \in Nat /\ Creds(i + 1) \in Nat /\ Behind(i + 1) \in Nat /\ Flits(i) \in Nat
      /\ image[i].occ \in Nat /\ Size \in Nat
  BY <1>1, UseType
<1>3. SlotsOK(i)
  BY DEF Inv
<1>4. Creds(i + 1) = 1 + Bit((i + 1) \in cred) + Bit((i + 1) \in credOut) /\ Creds(i + 1) >= 1
  BY DEF Creds, Cred1, Bit, Credited
<1>5. Live(i + 1, "off") => Behind(i + 1) + 1 <= Creds(i + 1)
  <2>1. annOut[i + 1].src = "off" => annOut[i + 1] # NoAnn
    BY AnnType
  <2>2. ann[i + 1].src = "off" => ann[i + 1] # NoAnn
    BY AnnType
  <2>3. Bit((i + 1) \in cred) \in 0 .. 1 /\ Bit((i + 1) \in credOut) \in 0 .. 1
    BY DEF Bit
  <2> QED
    BY <1>4, <2>1, <2>2, <2>3 DEF Behind, Live
<1> QED
  BY <1>2, <1>3, <1>4, <1>5 DEF SlotsOK

(* A flit comes to a buffer with a free slot, or flies over a router whose *)
(* image has one and whose VC it holds or may take.                        *)
LEMMA FlyIn ==
  ASSUME Inv, phase = "eval", NEW i \in Pos, Queued(i)
  PROVE  /\ i - 1 \in Link /\ ~Live(i, "on") /\ ~Live(i, "off") /\ flitIn[i - 1] \in Flit
         /\ power[i] \in Idle => buf[i] < Size
         /\ power[i] \in Bypassed =>
              /\ image[i].occ + counter[i] < Size
              /\ (flitIn[i - 1].head <=> ~Open(i)) /\ ~Held(i)
              /\ flitIn[i - 1].head => ~image[i].inUse
              /\ ~flitIn[i - 1].head => image[i].inUse /\ ~image[i].tail
              /\ WaitForTail /\ flitIn[i - 1].head => image[i].occ = 0
<1> DEFINE h == i - 1
<1>1. h \in Link /\ h \in Pos /\ h + 1 = i /\ i > 0
  BY PosType DEF Queued, Link, Pos
<1>2. flitIn[h] \in Flit /\ flitIn[h] # NoFlit /\ flitIn[h] = Flit1(h)
  BY <1>1, Typed DEF Inv, Queued, Flit1
<1> HIDE DEF h
<1>3. /\ Use(i) \in Nat /\ Creds(i) \in Nat /\ Flits(h) \in Nat /\ image[h].occ \in Nat /\ Size \in Nat
      /\ image[i].occ \in Nat /\ counter[i] \in Nat /\ buf[i] \in Nat
      /\ image[i].inUse \in BOOLEAN /\ image[i].tail \in BOOLEAN
  <2>1. /\ Use(i) \in Nat /\ Creds(i) \in Nat /\ Size \in Nat
        /\ image[i].occ \in Nat /\ counter[i] \in Nat /\ buf[i] \in Nat
    BY UseType
  <2>2. Flits(h) \in Nat /\ image[h].occ \in Nat
    BY <1>1, UseType
  <2>3. image[i].inUse \in BOOLEAN /\ image[i].tail \in BOOLEAN
    BY Typed DEF Inv
  <2> QED
    BY <2>1, <2>2, <2>3
<1>4. Flits(h) >= 1
  BY <1>2, <1>3, Counts
<1>5. ~Live(i, "on") /\ ~Live(i, "off")
  <2>1. ASSUME NEW src \in {"on", "off"}, Live(i, src) PROVE FALSE
    <3>1. Hush(h)
      BY <1>1, <2>1, LiveHush
    <3> QED
      BY <1>3, <1>4, <3>1 DEF Hush
  <2> QED
    BY <2>1
<1>6. Use(i) + Flits(h) + Creds(i) = image[h].occ /\ image[h].occ <= Size /\ PacketsOK(h)
  <2>1. SlotsOK(h) /\ PacketsOK(h)
    BY <1>1 DEF Inv
  <2>2. ~Live(h + 1, "on") /\ ~Live(h + 1, "off")
    BY <1>1, <1>5
  <2>3. Use(h + 1) = Use(i) /\ Creds(h + 1) = Creds(i)
    BY <1>1
  <2>4. image[h].occ + 0 = Use(h + 1) + Flits(h) + Creds(h + 1) /\ image[h].occ <= Size
    BY <2>1, <2>2 DEF SlotsOK
  <2> QED
    BY <1>3, <2>1, <2>3, <2>4
<1>7. Use(i) < Size
  BY <1>3, <1>4, <1>6
<1>8. ASSUME power[i] \in Bypassed
      PROVE  /\ image[i].occ + counter[i] < Size
             /\ (flitIn[h].head <=> ~Open(i)) /\ ~Held(i)
             /\ flitIn[h].head => ~image[i].inUse
             /\ ~flitIn[h].head => image[i].inUse /\ ~image[i].tail
             /\ WaitForTail /\ flitIn[h].head => image[i].occ = 0
  <2>1. Use(i) = image[i].occ + counter[i] /\ power[i] \notin Idle
    BY <1>8 DEF Use, Idle, Bypassed
  <2>2. flitIn[h].head <=> ~Open(i)
    BY <1>1, <1>2, <1>6, <1>8 DEF PacketsOK, InOrder, Fits
  <2>3. Open(i) <=> image[i].inUse /\ ~image[i].tail
    BY <2>1 DEF Open
  <2>4. WaitForTail /\ flitIn[h].head => image[i].occ = 0
    <3>1. ASSUME WaitForTail, flitIn[h].head PROVE image[i].occ = 0
      <4>1. image[h].occ = Flits(h)
        BY <1>2, <1>6, <3>1 DEF PacketsOK, Alone
      <4>2. Use(i) = 0
        BY <1>3, <1>6, <4>1
      <4> QED
        BY <1>3, <2>1, <4>2
    <3> QED
      BY <3>1
  <2>5. ~Held(i)
    <3>1. CASE WaitForTail
      <4>1. i \in Link
        <5>1. i # Last
          BY <1>8 DEF Inv, Rest, Bypassed
        <5> QED
          BY <5>1, FlyCreditsAssumption DEF Pos, Link
      <4>2. Held(i) => image[i].occ > 0
        BY <3>1, <4>1 DEF Inv, PacketsOK
      <4> QED
        BY <1>3, <2>2, <2>3, <2>4, <3>1, <4>2 DEF Held
    <3>2. CASE ~WaitForTail
      <4>1. Held(i) => Held(h)
        BY <1>1, <1>5, <1>6, <1>8, <3>2 DEF PacketsOK
      <4>2. Held(h) => Flits(h) = 0
        BY <1>6, <3>2 DEF PacketsOK
      <4> QED
        BY <1>3, <1>4, <4>1, <4>2
    <3> QED
      BY <3>1, <3>2
  <2>6. flitIn[h].head => ~image[i].inUse
    BY <2>2, <2>3, <2>5 DEF Held
  <2> QED
    BY <1>7, <2>1, <2>2, <2>3, <2>4, <2>5, <2>6
<1>9. power[i] \in Idle => buf[i] < Size
  BY <1>7 DEF Use
<1> QED
  BY <1>1, <1>2, <1>5, <1>8, <1>9 DEF h

(* BufferState, field by field. *)
Images == [occ : Int, inUse : BOOLEAN, tail : BOOLEAN]

LEMMA Buffers ==
  ASSUME NEW b \in Images, NEW f \in Flit
  PROVE  /\ ProcessCredit(b) \in Images /\ SendingFlit(b, f) \in Images
         /\ TakeBuffer(b) \in Images /\ ReturnBuffer(b) \in Images
         /\ ProcessCredit(b).occ = b.occ - 1 /\ (ProcessCredit(b).tail <=> b.tail)
         /\ ProcessCredit(b).inUse <=> b.inUse /\ ~(WaitForTail /\ b.occ = 1 /\ b.tail)
         /\ SendingFlit(b, f).occ = b.occ + 1 /\ (SendingFlit(b, f).tail <=> b.tail \/ f.tail)
         /\ SendingFlit(b, f).inUse <=> b.inUse /\ (f.tail => WaitForTail)
         /\ TakeBuffer(b).occ = b.occ /\ TakeBuffer(b).inUse /\ ~TakeBuffer(b).tail
         /\ ReturnBuffer(b).occ = b.occ /\ ~ReturnBuffer(b).inUse /\ ~ReturnBuffer(b).tail
<1>1. f.tail \in BOOLEAN /\ WaitForTail \in BOOLEAN
  BY FlyCreditsAssumption DEF Flit
<1>2. /\ ProcessCredit(b) \in Images
      /\ ProcessCredit(b).occ = b.occ - 1 /\ (ProcessCredit(b).tail <=> b.tail)
      /\ ProcessCredit(b).inUse <=> b.inUse /\ ~(WaitForTail /\ b.occ = 1 /\ b.tail)
  <2> DEFINE w == b.inUse /\ ~(WaitForTail /\ b.occ = 1 /\ b.tail)
  <2>1. ProcessCredit(b) = [b EXCEPT !.occ = b.occ - 1, !.inUse = w] /\ w \in BOOLEAN
    BY <1>1 DEF ProcessCredit, Images
  <2> DEFINE n == b.occ - 1
  <2>2. n \in Int
    BY DEF Images
  <2> HIDE DEF w, n
  <2>3. /\ ProcessCredit(b) \in Images
        /\ ProcessCredit(b).occ = n /\ (ProcessCredit(b).tail <=> b.tail)
        /\ ProcessCredit(b).inUse <=> w
    <3> DEFINE r == [b EXCEPT !.occ = n, !.inUse = w]
    <3>1. ProcessCredit(b) = r
      BY <2>1 DEF n
    <3>2. r \in Images
      BY <2>1, <2>2 DEF Images
    <3>3. r.occ = n
      BY <2>1, <2>2 DEF Images
    <3>4. r.inUse <=> w
      BY <2>1, <2>2 DEF Images
    <3>5. r.tail <=> b.tail
      BY <2>1, <2>2 DEF Images
    <3> HIDE DEF r
    <3> QED
      BY <3>1, <3>2, <3>3, <3>4, <3>5
  <2> QED
    BY <2>3 DEF w, n
<1>3. /\ SendingFlit(b, f) \in Images
      /\ SendingFlit(b, f).occ = b.occ + 1 /\ (SendingFlit(b, f).tail <=> b.tail \/ f.tail)
      /\ SendingFlit(b, f).inUse <=> b.inUse /\ (f.tail => WaitForTail)
  <2> DEFINE w == b.inUse /\ (f.tail => WaitForTail)
             t == b.tail \/ f.tail
  <2>1. SendingFlit(b, f) = [b EXCEPT !.occ = b.occ + 1, !.tail = t, !.inUse = w] /\ w \in BOOLEAN /\ t \in BOOLEAN
    BY <1>1 DEF SendingFlit, Images
  <2> DEFINE n == b.occ + 1
  <2>2. n \in Int
    BY DEF Images
  <2> HIDE DEF w, t, n
  <2>3. /\ SendingFlit(b, f) \in Images
        /\ SendingFlit(b, f).occ = n /\ (SendingFlit(b, f).tail <=> t)
        /\ SendingFlit(b, f).inUse <=> w
    <3> DEFINE r == [b EXCEPT !.occ = n, !.tail = t, !.inUse = w]
    <3>1. SendingFlit(b, f) = r
      BY <2>1 DEF n
    <3>2. r \in Images
      BY <2>1, <2>2 DEF Images
    <3>3. r.occ = n
      BY <2>1, <2>2 DEF Images
    <3>4. r.inUse <=> w
      BY <2>1, <2>2 DEF Images
    <3>5. r.tail <=> t
      BY <2>1, <2>2 DEF Images
    <3> HIDE DEF r
    <3> QED
      BY <3>1, <3>2, <3>3, <3>4, <3>5
  <2> QED
    BY <2>3 DEF w, t, n
<1>4. /\ TakeBuffer(b) \in Images
      /\ TakeBuffer(b).occ = b.occ /\ TakeBuffer(b).inUse /\ ~TakeBuffer(b).tail
  BY DEF TakeBuffer, Images
<1>5. /\ ReturnBuffer(b) \in Images
      /\ ReturnBuffer(b).occ = b.occ /\ ~ReturnBuffer(b).inUse /\ ~ReturnBuffer(b).tail
  BY DEF ReturnBuffer, Images
<1> QED
  BY <1>2, <1>3, <1>4, <1>5

LEMMA Image1Type ==
  ASSUME Inv, NEW i \in Pos
  PROVE  /\ image[i] \in Images /\ Image1(i) \in Images
         /\ Image1(i).occ = image[i].occ - Bit(Credited(i))
         /\ Image1(i).inUse <=> image[i].inUse /\ ~(Credited(i) /\ WaitForTail /\ image[i].occ = 1 /\ image[i].tail)
         /\ Image1(i).tail <=> image[i].tail
<1>1. image[i] \in Images
  <2>1. image[i] \in [occ : 0 .. 2 * Size, inUse : BOOLEAN, tail : BOOLEAN]
    BY DEF Inv, TypeOK
  <2>2. \A n \in 0 .. 2 * Size : n \in Int
    OBVIOUS
  <2> QED
    BY <2>1, <2>2 DEF Images
<1>2. image[i].occ \in Int
  BY <1>1 DEF Images
<1>3. CASE Credited(i)
  <2>1. Image1(i) = ProcessCredit(image[i])
    BY <1>3 DEF Image1
  <2>2. \E f : f \in Flit
    <3>1. [head |-> TRUE, tail |-> TRUE, none |-> FALSE] \in Flit
      BY DEF Flit
    <3> QED
      BY <3>1
  <2> QED
    BY <1>1, <1>3, <2>1, <2>2, Buffers DEF Bit
<1>4. CASE ~Credited(i)
  <2>1. Image1(i) = image[i]
    BY <1>4 DEF Image1
  <2> QED
    BY <1>1, <1>2, <1>4, <2>1 DEF Bit
<1> QED
  BY <1>3, <1>4

(* The image of a router that is on or draining after its step.            *)
LEMMA Sent ==
  ASSUME Inv, NEW i \in Pos, PacketsOK(i), Sends(i)
  PROVE  /\ left[i] > 0 /\ image[i].inUse /\ ~image[i].tail /\ image[i].occ - Bit(Credited(i)) < Size
         /\ image'[i].occ = image[i].occ - Bit(Credited(i)) + 1
         /\ image'[i].inUse <=> (left[i] = 1 => WaitForTail)
         /\ image'[i].tail <=> left[i] = 1
         /\ xbar'[i] # NoFlit /\ xbar'[i] \in Flit
         /\ (xbar'[i].head <=> AtHead(i)) /\ (xbar'[i].tail <=> left[i] = 1)
         /\ left'[i] = left[i] - 1
<1>1. left[i] > 0 /\ image[i].inUse /\ ~image[i].tail
  BY DEF Sends, MaySend, PacketsOK
<1>2. /\ Image1(i) \in Images
      /\ Image1(i).occ = image[i].occ - Bit(Credited(i))
      /\ Image1(i).inUse /\ ~Image1(i).tail
  BY <1>1, Image1Type
<1> DEFINE f == Scheduled(i)
<1>3. (f.head <=> AtHead(i)) /\ (f.tail <=> left[i] = 1) /\ f \in Flit
  BY DEF Scheduled, Flit, AtHead
<1>4. image'[i] = SendingFlit(Image1(i), f) /\ xbar'[i] = f /\ left'[i] = left[i] - 1
  BY DEF Sends
<1> HIDE DEF f
<1>5. /\ SendingFlit(Image1(i), f).occ = Image1(i).occ + 1
      /\ SendingFlit(Image1(i), f).tail <=> Image1(i).tail \/ f.tail
      /\ SendingFlit(Image1(i), f).inUse <=> Image1(i).inUse /\ (f.tail => WaitForTail)
  BY <1>2, <1>3, Buffers
<1>6. /\ image'[i].occ = Image1(i).occ + 1 /\ (image'[i].inUse <=> (f.tail => WaitForTail))
      /\ image'[i].tail <=> f.tail
  BY <1>2, <1>4, <1>5
<1>7. xbar'[i] # NoFlit
  BY <1>3, <1>4, FlitType
<1>8. image'[i].occ = image[i].occ - Bit(Credited(i)) + 1 /\ image[i].occ - Bit(Credited(i)) < Size
  BY <1>2, <1>6 DEF Sends, MaySend
<1> QED
  BY <1>1, <1>3, <1>4, <1>6, <1>7, <1>8

LEMMA TakenOrReturned ==
  ASSUME Inv, NEW i \in Pos, Takes(i) \/ Returns(i)
  PROVE  /\ image'[i].occ = image[i].occ - Bit(Credited(i))
         /\ image'[i].inUse <=> Takes(i)
         /\ ~image'[i].tail /\ xbar'[i] = NoFlit
<1>1. Image1(i).occ = image[i].occ - Bit(Credited(i)) /\ Image1(i) \in Images
  BY Image1Type
<1>2. \E f : f \in Flit
  <2>1. [head |-> TRUE, tail |-> TRUE, none |-> FALSE] \in Flit
    BY DEF Flit
  <2> QED
    BY <2>1
<1>3. LET b == TakeBuffer(Image1(i))
          r == ReturnBuffer(Image1(i))
      IN  /\ b.occ = Image1(i).occ /\ b.inUse /\ ~b.tail
          /\ r.occ = Image1(i).occ /\ ~r.inUse /\ ~r.tail
  BY <1>1, <1>2, Buffers
<1>4. CASE Takes(i)
  BY <1>1, <1>3, <1>4 DEF Takes
<1>5. CASE Returns(i)
  <2>1. ~Takes(i)
    BY <1>5, Typed DEF Inv, Takes, Returns, MayTake, MayReturn
  <2> QED
    BY <1>1, <1>3, <1>5, <2>1 DEF Returns
<1> QED
  BY <1>4, <1>5

(* The image of a router that a flit flies over.                           *)
LEMMA Flown ==
  ASSUME Inv, Evaluate, NEW i \in Link, power[i] \in Bypassed, Queued(i)
  PROVE  /\ image'[i].occ = image[i].occ - Bit(Credited(i)) + 1
         /\ image'[i].inUse <=> (flitIn[i - 1].tail => WaitForTail)
         /\ image'[i].tail <=> flitIn[i - 1].tail
<1> DEFINE f == flitIn[i - 1]
           e == IF f.head THEN TakeBuffer(image[i]) ELSE image[i]
           b == SendingFlit(e, f)
<1>1. i \in Pos /\ phase = "eval"
  BY PosType DEF Evaluate
<1>2. /\ f \in Flit /\ (f.head => ~image[i].inUse) /\ (~f.head => image[i].inUse /\ ~image[i].tail)
      /\ image'[i] = FlownOver(i)
  BY <1>1, FlyIn, EvalFacts
<1>3. image[i] \in Images /\ image[i].occ \in Int
  BY <1>1, Image1Type DEF Images
<1>4. Credited(i) => image[i].occ > 0
  BY <1>1, CreditMeets
<1>5. FlownOver(i) = IF Credited(i) THEN ProcessCredit(b) ELSE b
  BY DEF FlownOver
<1>6. e \in Images /\ e.occ = image[i].occ /\ e.inUse /\ ~e.tail
  <2> HIDE DEF f
  <2>1. CASE f.head
    <3>1. e = TakeBuffer(image[i])
      BY <2>1
    <3> HIDE DEF e
    <3> QED
      BY <1>2, <1>3, <3>1, Buffers
  <2>2. CASE ~f.head
    <3>1. e = image[i]
      BY <2>2
    <3> HIDE DEF e
    <3> QED
      BY <1>2, <1>3, <2>2, <3>1
  <2> QED
    BY <2>1, <2>2
<1>7. b \in Images /\ b.occ = image[i].occ + 1 /\ (b.inUse <=> (f.tail => WaitForTail)) /\ (b.tail <=> f.tail)
  <2>1. b = SendingFlit(e, f)
    OBVIOUS
  <2> HIDE DEF f, e, b
  <2> QED
    BY <1>2, <1>6, <2>1, Buffers
<1> HIDE DEF e, b
<1>8. CASE Credited(i)
  <2>1. image'[i] = ProcessCredit(b)
    BY <1>2, <1>5, <1>8
  <2> HIDE DEF f
  <2>2. /\ ProcessCredit(b).occ = b.occ - 1 /\ (ProcessCredit(b).tail <=> b.tail)
        /\ ProcessCredit(b).inUse <=> b.inUse /\ ~(WaitForTail /\ b.occ = 1 /\ b.tail)
    BY <1>2, <1>7, Buffers
  <2>3. image'[i].occ = b.occ - 1 /\ (image'[i].tail <=> b.tail) /\ (image'[i].inUse <=> b.inUse)
    BY <1>3, <1>4, <1>7, <1>8, <2>1, <2>2
  <2>4. Bit(Credited(i)) = 1
    BY <1>8 DEF Bit
  <2> QED
    BY <1>3, <1>7, <2>3, <2>4 DEF f
<1>9. CASE ~Credited(i)
  <2>1. image'[i] = b /\ Bit(Credited(i)) = 0
    BY <1>2, <1>5, <1>9 DEF Bit
  <2> QED
    BY <1>3, <1>7, <2>1
<1> QED
  BY <1>8, <1>9

(* What Evaluate adds to the link from i, taken from it at its end by      *)
(* Queued(i + 1).                                                          *)
Adds(i) == Bit(IF power[i] \in Idle THEN xbar'[i] # NoFlit ELSE Queued(i))

LEMMA EvalCounts ==
  ASSUME Inv, Evaluate, NEW i \in Link
  PROVE  /\ Adds(i) \in {0, 1} /\ Bit(Credited(i)) \in {0, 1} /\ Bit(Queued(i + 1)) \in {0, 1}
         /\ image'[i].occ = image[i].occ - Bit(Credited(i)) + Adds(i)
         /\ Flits(i)' = Flits(i) - Bit(Queued(i + 1)) + Adds(i)
<1>1. i \in Pos /\ i + 1 \in Pos /\ i \in Nat /\ phase = "eval" /\ phase' = "write"
  BY PosType, EvalFacts
<1>2. image[i].occ \in Nat /\ power[i] \in Idle \cup Bypassed
  BY <1>1, Typed DEF Inv, PowerState, Idle, Bypassed
<1>3. Image1(i).occ = image[i].occ - Bit(Credited(i)) /\ Bit(Credited(i)) \in {0, 1}
  BY <1>1, Image1Type DEF Bit
<1>4. Queued(i + 1) <=> Flit1(i) # NoFlit
  <2>1. i + 1 > 0 /\ i + 1 - 1 = i
    BY <1>1
  <2> QED
    BY <1>1, <2>1 DEF Queued, Flit1
<1>5. Flit1(i)' = NoFlit /\ flit'[i] = flit[i] /\ flitOut[i] = NoFlit
  BY <1>1, EvalFacts DEF Flit1
<1>6. CASE power[i] \in Idle
  <2>1. /\ Takes(i) \/ Sends(i) \/ Returns(i) \/ Rests(i)
        /\ flitOut'[i] = xbar[i]
    BY <1>1, <1>6, EvalFacts
  <2>2. Adds(i) = Bit(xbar'[i] # NoFlit)
    BY <1>6 DEF Adds
  <2>3. Flits(i)' = Flits(i) - Bit(Queued(i + 1)) + Adds(i)
    BY <1>4, <1>5, <2>1, <2>2 DEF Flits, Bit
  <2>4. image'[i].occ = image[i].occ - Bit(Credited(i)) + Adds(i)
    <3>1. CASE Takes(i) \/ Returns(i)
      BY <1>1, <1>2, <1>3, <2>2, <3>1, TakenOrReturned DEF Bit
    <3>2. CASE Sends(i)
      <4>1. PacketsOK(i)
        BY DEF Inv
      <4>2. xbar'[i] # NoFlit /\ image'[i].occ = image[i].occ - Bit(Credited(i)) + 1
        BY <1>1, <3>2, <4>1, Sent
      <4> QED
        BY <2>2, <4>2 DEF Bit
    <3>3. CASE Rests(i)
      BY <1>2, <1>3, <2>2, <3>3 DEF Rests, Bit
    <3> QED
      BY <2>1, <3>1, <3>2, <3>3
  <2> QED
    BY <1>3, <2>2, <2>3, <2>4 DEF Bit
<1>7. CASE power[i] \in Bypassed
  <2>1. /\ xbar[i] = NoFlit /\ xbar'[i] = NoFlit /\ image'[i] = FlownOver(i)
        /\ flitOut'[i] = IF Queued(i) THEN flitIn[i - 1] ELSE NoFlit
    BY <1>1, <1>7, EvalFacts
  <2>2. Adds(i) = Bit(Queued(i))
    BY <1>7 DEF Adds, Idle, Bypassed
  <2>3. flitOut'[i] # NoFlit <=> Queued(i)
    BY <2>1 DEF Queued
  <2>4. Flits(i)' = Flits(i) - Bit(Queued(i + 1)) + Adds(i)
    BY <1>4, <1>5, <2>1, <2>2, <2>3 DEF Flits, Bit
  <2>5. image'[i].occ = image[i].occ - Bit(Credited(i)) + Adds(i)
    <3>1. CASE Queued(i)
      BY <1>7, <2>2, <3>1, Flown DEF Bit
    <3>2. CASE ~Queued(i)
      BY <1>2, <1>3, <2>1, <2>2, <3>2 DEF FlownOver, Bit
    <3> QED
      BY <3>1, <3>2
  <2> QED
    BY <1>3, <2>2, <2>4, <2>5 DEF Bit
<1> QED
  BY <1>2, <1>6, <1>7

LEMMA EvalCredits ==
  ASSUME Inv, Evaluate, NEW d \in Pos
  PROVE  /\ Bit(Queued(d)) \in {0, 1} /\ Bit(d \in credOut') \in {0, 1} /\ Bit(d \in credIn) \in {0, 1}
         /\ Use(d)' = Use(d) + Bit(Queued(d)) - Bit(d \in credOut')
         /\ Creds(d)' = Creds(d) - Bit(d \in credIn) + Bit(d \in credOut')
         /\ \A src \in {"on", "off"} :
              /\ Live(d, src)' <=> Live(d, src)
              /\ Live(d, src) => Behind(d)' = Behind(d) + Bit(d \in credOut')
<1>1. /\ phase = "eval" /\ phase' = "write" /\ credOut = {}
      /\ UNCHANGED <<power, annOut, cred, ann, annIn, credIn>>
  BY EvalFacts
<1>2. Bit(Queued(d)) \in {0, 1} /\ Bit(d \in credOut') \in {0, 1} /\ Bit(d \in credIn) \in {0, 1}
  BY DEF Bit
<1>3. Creds(d)' = Creds(d) - Bit(d \in credIn) + Bit(d \in credOut')
  BY <1>1 DEF Creds, Cred1, Bit
<1>4. ASSUME NEW src \in {"on", "off"}
      PROVE  /\ Live(d, src)' <=> Live(d, src)
             /\ Live(d, src) => Behind(d)' = Behind(d) + Bit(d \in credOut')
  <2>1. Live(d, src)' <=> Live(d, src)
    BY <1>1 DEF Live
  <2>2. ASSUME Live(d, src) PROVE annOut[d] # NoAnn \/ ann[d] # NoAnn
    BY <1>1, <2>2, AnnType DEF Live
  <2> QED
    BY <1>1, <2>1, <2>2 DEF Behind, Bit
<1>5. Use(d)' = Use(d) + Bit(Queued(d)) - Bit(d \in credOut')
  <2>1. power[d] \in Idle \cup Bypassed /\ image[d].occ \in Nat /\ counter[d] \in Nat
    BY Typed DEF Inv, PowerState, Idle, Bypassed
  <2>2. CASE power[d] \in Idle
    BY <1>1, <2>2, EvalFacts DEF Use
  <2>3. CASE power[d] \in Bypassed
    <3>1. d \in Link /\ power[d] \notin Idle
      <4>1. d # Last
        BY <2>3 DEF Inv, Rest, Bypassed
      <4> QED
        BY <2>3, <4>1, FlyCreditsAssumption DEF Pos, Link, Idle, Bypassed
    <3>2. image'[d].occ = image[d].occ - Bit(Credited(d)) + Bit(Queued(d)) /\ Bit(Credited(d)) \in {0, 1}
      BY <3>1, EvalCounts DEF Adds
    <3>3. counter'[d] = counter[d] - Bit(HandsOver(d)) /\ (d \in credOut' <=> Credited(d) \/ HandsOver(d))
      BY <2>3, EvalFacts
    <3>4. Bit(d \in credOut') = Bit(Credited(d)) + Bit(HandsOver(d))
      BY <3>3 DEF HandsOver, Bit
    <3>5. Bit(HandsOver(d)) \in {0, 1}
      BY DEF Bit
    <3> QED
      BY <1>1, <1>2, <2>1, <3>1, <3>2, <3>3, <3>4, <3>5 DEF Use
  <2> QED
    BY <2>1, <2>2, <2>3
<1> QED
  BY <1>2, <1>3, <1>4, <1>5

(* Every slot of the link is still accounted for. *)
LEMMA EvalSlots ==
  ASSUME Inv, Evaluate, NEW i \in Link
  PROVE  SlotsOK(i)'
<1> DEFINE d == i + 1
           add == Adds(i)
           c == Bit(Credited(i))
           q == Bit(Queued(d))
           o == Bit(d \in credOut')
<1>1. i \in Pos /\ d \in Pos /\ i \in Nat /\ phase = "eval" /\ (Credited(i) <=> d \in credIn)
  BY PosType, EvalFacts DEF Credited
<1>2. /\ Use(d) \in Nat /\ Creds(d) \in Nat /\ Behind(d) \in Nat /\ Flits(i) \in Nat
      /\ image[i].occ \in Nat /\ Size \in Nat /\ counter[d] \in Nat /\ image[d].occ \in Nat /\ buf[d] \in Nat
  BY <1>1, UseType
<1>3. /\ image'[i].occ = image[i].occ - c + add /\ Flits(i)' = Flits(i) - q + add
      /\ add \in {0, 1} /\ c \in {0, 1} /\ q \in {0, 1}
  BY EvalCounts
<1>4. /\ Use(d)' = Use(d) + q - o /\ Creds(d)' = Creds(d) - c + o /\ o \in {0, 1}
      /\ \A src \in {"on", "off"} : /\ Live(d, src)' <=> Live(d, src)
                                    /\ Live(d, src) => Behind(d)' = Behind(d) + o
  <2>1. Bit(d \in credIn) = c
    BY <1>1 DEF Bit
  <2> QED
    BY <1>1, <2>1, EvalCredits
<1>5. SlotsOK(i) /\ PacketsOK(i)
  BY DEF Inv
<1>6. ASSUME NEW src \in {"on", "off"}, Live(d, src) PROVE add = 0 /\ q = 0
  <2>1. Hush(i) /\ (power[i] \in Bypassed => ~Queued(i)) /\ (power[i] \in Idle => down[i] # "on")
    BY <1>1, <1>6, LiveHush
  <2>2. q = 0
    <3>1. flitIn[i] = NoFlit
      BY <1>1, <2>1, Counts DEF Hush, Flit1
    <3>2. d - 1 = i
      BY <1>1
    <3> QED
      BY <3>1, <3>2 DEF Queued, Bit
  <2>3. add = 0
    <3>1. CASE power[i] \in Idle
      <4>1. left[i] = 0
        BY <2>1 DEF Hush
      <4>2. ~Sends(i)
        BY <4>1 DEF Sends, MaySend
      <4>3. xbar'[i] = NoFlit
        BY <1>1, <3>1, <4>2, EvalFacts DEF Takes, Returns, Rests
      <4> QED
        BY <3>1, <4>3 DEF Adds, Bit
    <3>2. CASE power[i] \in Bypassed
      BY <2>1, <3>2 DEF Adds, Idle, Bypassed, Bit
    <3> QED
      BY <1>1, <3>1, <3>2, Typed DEF Inv, PowerState, Idle, Bypassed
  <2> QED
    BY <2>2, <2>3
<1>7. add = 1 => image[i].occ - c < Size
  <2>1. CASE power[i] \in Idle
    <3>1. CASE Sends(i)
      BY <1>1, <1>5, <3>1, Sent
    <3>2. CASE ~Sends(i)
      BY <1>1, <2>1, <3>2, EvalFacts DEF Adds, Takes, Returns, Rests, Bit
    <3> QED
      BY <3>1, <3>2
  <2>2. CASE power[i] \in Bypassed
    <3>1. add = 1 => Queued(i)
      BY <2>2 DEF Adds, Idle, Bypassed, Bit
    <3>2. Queued(i) => image[i].occ + counter[i] < Size
      BY <1>1, <2>2, FlyIn
    <3>3. counter[i] \in Nat
      BY <1>1, UseType
    <3> QED
      BY <1>2, <1>3, <3>1, <3>2, <3>3
  <2> QED
    BY <1>1, <2>1, <2>2, Typed DEF Inv, PowerState, Idle, Bypassed
<1>8. ASSUME Live(d, "on") PROVE o = 0
  <2>1. Use(d) = 0 /\ q = 0
    BY <1>5, <1>6, <1>8 DEF SlotsOK
  <2>2. CASE power[d] \in Idle
    <3>1. buf[d] + Bit(Queued(d)) = 0
      BY <1>2, <2>1, <2>2 DEF Use
    <3> QED
      BY <1>1, <2>2, <3>1, EvalFacts DEF Bit
  <2>3. CASE power[d] \in Bypassed
    <3>1. image[d].occ = 0 /\ counter[d] = 0
      BY <1>2, <2>1, <2>3 DEF Use, Idle, Bypassed
    <3>2. ~HandsOver(d)
      BY <3>1 DEF HandsOver
    <3>3. ~Credited(d)
      <4>1. d \in Link
        <5>1. d # Last
          BY <2>3 DEF Inv, Rest, Bypassed
        <5> QED
          BY <1>1, <5>1, FlyCreditsAssumption DEF Pos, Link
      <4> QED
        BY <1>1, <3>1, <4>1, CreditMeets
    <3> QED
      BY <1>1, <2>3, <3>2, <3>3, EvalFacts DEF Bit
  <2> QED
    BY <1>1, <2>2, <2>3, Typed DEF Inv, PowerState, Idle, Bypassed
<1>9. c = 1 => image[i].occ > 0 /\ Creds(d) >= 1
  <2>1. c = 1 => Credited(i)
    BY DEF Bit
  <2>2. Credited(i) => image[i].occ > 0
    BY <1>1, CreditMeets
  <2>3. Credited(i) => Creds(d) >= 1
    BY <1>1 DEF Creds, Cred1, Bit
  <2> QED
    BY <2>1, <2>2, <2>3
<1> HIDE DEF d, add, c, q, o
<1>10. /\ image[i].occ <= Size
       /\ ~Live(d, "on") => image[i].occ + (IF Live(d, "off") THEN Size ELSE 0) = Use(d) + Flits(i) + Creds(d)
       /\ Live(d, "off") => image[i].occ + Behind(d) = Creds(d)
       /\ Live(d, "on")  => Use(d) = 0 /\ Behind(d) = 0 /\ Creds(d) <= image[i].occ
  BY <1>5 DEF SlotsOK, d
<1>11. /\ image'[i].occ <= Size
       /\ ~Live(d, "on") => image'[i].occ + (IF Live(d, "off") THEN Size ELSE 0) = Use(d)' + Flits(i)' + Creds(d)'
       /\ Live(d, "off") => image'[i].occ + Behind(d)' = Creds(d)'
       /\ Live(d, "on")  => Use(d)' = 0 /\ Behind(d)' = 0 /\ Creds(d)' <= image'[i].occ
  <2>1. image'[i].occ <= Size
    BY <1>2, <1>3, <1>7, <1>10
  <2>2. ASSUME ~Live(d, "on")
        PROVE image'[i].occ + (IF Live(d, "off") THEN Size ELSE 0) = Use(d)' + Flits(i)' + Creds(d)'
    BY <1>2, <1>3, <1>4, <1>10, <2>2
  <2>3. ASSUME Live(d, "off") PROVE image'[i].occ + Behind(d)' = Creds(d)'
    BY <1>2, <1>3, <1>4, <1>6, <1>10, <2>3
  <2>4. ASSUME Live(d, "on")  PROVE Use(d)' = 0 /\ Behind(d)' = 0 /\ Creds(d)' <= image'[i].occ
    BY <1>2, <1>3, <1>4, <1>6, <1>8, <1>10, <2>4
  <2> QED
    BY <2>1, <2>2, <2>3, <2>4
<1> QED
  BY <1>4, <1>11 DEF SlotsOK, d

(* The flit that Evaluate adds to the link from i. *)
Added(i) == IF power[i] \in Idle THEN xbar'[i] ELSE IF Queued(i) THEN flitIn[i - 1] ELSE NoFlit

LEMMA EvalOpen ==
  ASSUME Inv, Evaluate, NEW i \in Link
  PROVE  /\ Open(i)' <=> OpenAfter(Added(i), Open(i))
         /\ Fits(Added(i), Open(i))
         /\ Added(i) # NoFlit => Added(i) \in Flit
         /\ Added(i) # NoFlit <=> Adds(i) = 1
<1>1. i \in Pos /\ phase = "eval" /\ power' = power
  BY PosType, EvalFacts
<1>2. PacketsOK(i) /\ left[i] \in Nat /\ left[i] <= PacketSize[i] /\ PacketSize[i] \in Nat \ {0}
      /\ power[i] \in PowerState
  BY <1>1, Typed DEF Inv
<1>3. CASE power[i] \in Idle
  <2>1. /\ Added(i) = xbar'[i] /\ Adds(i) = Bit(xbar'[i] # NoFlit)
        /\ Open(i)' <=> left'[i] > 0 /\ left'[i] # PacketSize[i]
        /\ Open(i) <=> left[i] > 0 /\ left[i] # PacketSize[i]
    BY <1>1, <1>3 DEF Added, Adds, Open, AtHead
  <2>2. Added(i) # NoFlit <=> Adds(i) = 1
    BY <2>1 DEF Bit
  <2>3. CASE Sends(i)
    <3>1. /\ left[i] > 0 /\ xbar'[i] \in Flit /\ xbar'[i] # NoFlit /\ left'[i] = left[i] - 1
          /\ (xbar'[i].head <=> AtHead(i)) /\ (xbar'[i].tail <=> left[i] = 1)
      BY <1>1, <1>2, <2>3, Sent
    <3>2. Fits(Added(i), Open(i))
      BY <2>1, <3>1 DEF Fits, AtHead
    <3>3. Open(i)' <=> OpenAfter(Added(i), Open(i))
      BY <1>2, <2>1, <3>1 DEF OpenAfter
    <3> QED
      BY <2>1, <2>2, <3>1, <3>2, <3>3
  <2>4. CASE ~Sends(i)
    <3>1. xbar'[i] = NoFlit /\ (Takes(i) \/ Returns(i) \/ Rests(i))
      BY <1>1, <1>3, <2>4, EvalFacts DEF Takes, Returns, Rests
    <3>2. Open(i)' <=> Open(i)
      BY <1>2, <2>1, <3>1 DEF Takes, Returns, Rests, MayTake, MayReturn, AtHead
    <3> QED
      BY <2>1, <2>2, <3>1, <3>2 DEF Fits, OpenAfter
  <2> QED
    BY <2>3, <2>4
<1>4. CASE power[i] \in Bypassed
  <2>1. /\ Open(i)' <=> image'[i].inUse /\ ~image'[i].tail
        /\ Open(i) <=> image[i].inUse /\ ~image[i].tail
        /\ Adds(i) = Bit(Queued(i)) /\ Added(i) = IF Queued(i) THEN flitIn[i - 1] ELSE NoFlit
    BY <1>1, <1>4 DEF Open, Adds, Added, Idle, Bypassed
  <2>2. CASE Queued(i)
    <3>1. flitIn[i - 1] \in Flit /\ (flitIn[i - 1].head <=> ~Open(i)) /\ flitIn[i - 1].tail \in BOOLEAN
      BY <1>1, <1>4, <2>2, FlyIn, FlitType
    <3>2. image'[i].inUse <=> (flitIn[i - 1].tail => WaitForTail)
      BY <1>4, <2>2, Flown
    <3>3. image'[i].tail <=> flitIn[i - 1].tail
      BY <1>4, <2>2, Flown
    <3>4. Added(i) = flitIn[i - 1] /\ Adds(i) = 1 /\ Added(i) # NoFlit
      BY <2>1, <2>2, <3>1, FlitType DEF Bit
    <3> QED
      BY <2>1, <3>1, <3>2, <3>3, <3>4 DEF Fits, OpenAfter
  <2>3. CASE ~Queued(i)
    <3>1. image'[i] = Image1(i) /\ Added(i) = NoFlit /\ Adds(i) = 0
      BY <1>1, <1>4, <2>1, <2>3, EvalFacts DEF FlownOver, Bit
    <3>2. Open(i)' <=> Open(i)
      BY <1>1, <2>1, <3>1, Image1Type
    <3> QED
      BY <3>1, <3>2 DEF Fits, OpenAfter
  <2> QED
    BY <2>2, <2>3
<1> QED
  BY <1>2, <1>3, <1>4 DEF PowerState, Idle, Bypassed

(* The places of the link from i after Evaluate. *)
LEMMA EvalPlaces ==
  ASSUME Inv, Evaluate, NEW i \in Link
  PROVE  /\ Flit1(i)' = NoFlit /\ Flit1(i) = flitIn[i] /\ flit'[i] = flit[i] /\ flitOut[i] = NoFlit
         /\ power[i] \in Idle => flitOut'[i] = xbar[i] /\ xbar'[i] = Added(i)
         /\ power[i] \in Bypassed => xbar[i] = NoFlit /\ flitOut'[i] = Added(i) /\ xbar'[i] = NoFlit
         /\ power[i] \in Idle \cup Bypassed
         /\ Queued(i + 1) <=> flitIn[i] # NoFlit
<1>1. i \in Pos /\ i \in Nat /\ i + 1 > 0 /\ i + 1 - 1 = i
  <2>1. i \in Pos
    BY PosType
  <2>2. i \in Nat
    BY <2>1, PosType
  <2> QED
    BY <2>1, <2>2
<1>2. power[i] \in Idle \cup Bypassed
  BY <1>1, Typed DEF Inv, PowerState, Idle, Bypassed
<1>3. Flit1(i)' = NoFlit /\ Flit1(i) = flitIn[i] /\ flit'[i] = flit[i] /\ flitOut[i] = NoFlit
  BY <1>1, EvalFacts DEF Flit1
<1>4. power[i] \in Idle => flitOut'[i] = xbar[i] /\ xbar'[i] = Added(i)
  BY <1>1, EvalFacts DEF Added
<1>5. power[i] \in Bypassed => xbar[i] = NoFlit /\ flitOut'[i] = Added(i) /\ xbar'[i] = NoFlit
  BY <1>1, EvalFacts DEF Added, Idle, Bypassed
<1>6. Queued(i + 1) <=> flitIn[i] # NoFlit
  BY <1>1 DEF Queued
<1> QED
  BY <1>2, <1>3, <1>4, <1>5, <1>6

(* Packets still follow each other to a router that is off. *)
LEMMA EvalInOrder ==
  ASSUME Inv, Evaluate, NEW i \in Link, power[i + 1] \in Bypassed
  PROVE  InOrder(i)'
<1>1. InOrder(i) /\ i + 1 \in Pos /\ power' = power
  BY PosType, EvalFacts DEF Inv, PacketsOK
<1>2. i + 1 \in Link /\ power[i + 1] \notin Idle
  <2>1. i + 1 # Last
    BY DEF Inv, Rest, Bypassed
  <2> QED
    BY <1>1, <2>1, FlyCreditsAssumption DEF Pos, Link, Idle, Bypassed
<1>3. Open(i + 1)' <=> Open1(i)
  <2>1. Open(i + 1)' <=> OpenAfter(Added(i + 1), Open(i + 1))
    BY <1>2, EvalOpen
  <2>2. Added(i + 1) = Flit1(i)
    <3> DEFINE d == i + 1
    <3>1. i \in Pos
      BY PosType
    <3>2. d - 1 = i
      BY <3>1, PosType
    <3>3. Flit1(i) = flitIn[i] /\ (Queued(d) <=> flitIn[i] # NoFlit) /\ power[d] \notin Idle
      BY <1>2, EvalPlaces
    <3> HIDE DEF d
    <3>4. Added(d) = Flit1(i)
      BY <3>2, <3>3 DEF Added
    <3> QED
      BY <3>4 DEF d
  <2> QED
    BY <2>1, <2>2 DEF Open1
<1>4. /\ Flit1(i)' = NoFlit /\ flit'[i] = flit[i] /\ flitOut[i] = NoFlit
      /\ \/ flitOut'[i] = xbar[i] /\ xbar'[i] = Added(i)
         \/ xbar[i] = NoFlit /\ flitOut'[i] = Added(i) /\ xbar'[i] = NoFlit
  BY EvalPlaces
<1>5. (Open(i)' <=> OpenAfter(Added(i), Open(i))) /\ Fits(Added(i), Open(i))
  BY EvalOpen
<1>6. (Open1(i)' <=> Open1(i)) /\ (Open2(i)' <=> Open2(i)) /\ (Open3(i) <=> Open2(i))
  BY <1>3, <1>4 DEF Open1, Open2, Open3, OpenAfter
<1>7. CASE flitOut'[i] = xbar[i] /\ xbar'[i] = Added(i)
  <2>1. Open3(i)' <=> Open(i)
    BY <1>1, <1>6, <1>7 DEF Open3, InOrder, OpenAfter
  <2> QED
    BY <1>1, <1>3, <1>4, <1>5, <1>6, <1>7, <2>1 DEF InOrder, Fits, OpenAfter
<1>8. CASE xbar[i] = NoFlit /\ flitOut'[i] = Added(i) /\ xbar'[i] = NoFlit
  <2>1. Open2(i)' <=> Open(i)
    BY <1>1, <1>6, <1>8 DEF InOrder, OpenAfter
  <2>2. Open3(i)' <=> Open(i)'
    BY <1>5, <1>8, <2>1 DEF Open3, OpenAfter
  <2> QED
    BY <1>1, <1>3, <1>4, <1>5, <1>6, <1>8, <2>1, <2>2 DEF InOrder, Fits, OpenAfter
<1> QED
  BY <1>4, <1>7, <1>8

(* What happens at the sending end of a link. *)
LEMMA EvalCases ==
  ASSUME Inv, Evaluate, NEW i \in Link
  PROVE  \/ power[i] \in Idle /\ Sends(i) /\ Adds(i) = 1
         \/ power[i] \in Bypassed /\ Queued(i) /\ Adds(i) = 1 /\ left[i] = 0 /\ left'[i] = 0
         \/ power[i] \in Idle /\ (Takes(i) \/ Returns(i)) /\ Adds(i) = 0 /\ Added(i) = NoFlit
         \/ image'[i] = Image1(i) /\ left'[i] = left[i] /\ Adds(i) = 0 /\ Added(i) = NoFlit
<1>1. i \in Pos
  BY PosType
<1>2. (Added(i) # NoFlit <=> Adds(i) = 1) /\ Adds(i) \in {0, 1}
  BY EvalOpen, EvalCounts
<1>3. CASE power[i] \in Idle
  <2>1. (Takes(i) \/ Sends(i) \/ Returns(i) \/ Rests(i)) /\ Added(i) = xbar'[i]
    BY <1>1, <1>3, EvalFacts DEF Added
  <2>2. CASE Sends(i)
    <3>1. xbar'[i] # NoFlit
      BY <1>1, <2>2, Sent DEF Inv
    <3> QED
      BY <1>2, <1>3, <2>1, <2>2, <3>1
  <2>3. CASE Takes(i) \/ Returns(i)
    BY <1>2, <1>3, <2>1, <2>3 DEF Takes, Returns
  <2>4. CASE Rests(i)
    BY <1>2, <2>1, <2>4 DEF Rests
  <2> QED
    BY <2>1, <2>2, <2>3, <2>4
<1>4. CASE power[i] \in Bypassed
  <2>1. left[i] = 0 /\ left'[i] = 0 /\ image'[i] = FlownOver(i) /\ Adds(i) = Bit(Queued(i))
    BY <1>1, <1>4, EvalFacts DEF Inv, Rest, Adds, Idle, Bypassed
  <2>2. CASE Queued(i)
    BY <1>4, <2>1, <2>2 DEF Bit
  <2>3. CASE ~Queued(i)
    <3>1. Adds(i) = 0 /\ image'[i] = Image1(i)
      BY <2>1, <2>3 DEF Bit, FlownOver
    <3> QED
      BY <1>2, <2>1, <3>1
  <2> QED
    BY <2>2, <2>3
<1> QED
  BY <1>1, <1>3, <1>4, Typed DEF Inv, PowerState, Idle, Bypassed

(* A VC that is held stays held, unless the credit of the tail is back.    *)
LEMMA HeldStays ==
  ASSUME Inv, Evaluate, NEW i \in Link, Held(i), Image1(i).inUse
  PROVE  Held(i)' /\ Adds(i) = 0 /\ left'[i] = left[i]
<1>1. i \in Pos /\ PacketsOK(i) /\ phase = "eval" /\ left[i] \in Nat
  BY PosType, EvalFacts, UseType DEF Inv
<1>2. left[i] = 0
  BY <1>1 DEF PacketsOK, Held
<1>3. ~Sends(i) /\ ~Takes(i) /\ ~Returns(i)
  BY <1>2 DEF Sends, Takes, Returns, MaySend, MayTake, MayReturn
<1>4. ~(power[i] \in Bypassed /\ Queued(i))
  BY <1>1, FlyIn
<1>5. image'[i] = Image1(i) /\ left'[i] = left[i] /\ Adds(i) = 0
  BY <1>3, <1>4, EvalCases
<1>6. Image1(i).tail <=> image[i].tail
  BY <1>1, Image1Type
<1> QED
  BY <1>5, <1>6 DEF Held

(* If the VC does not wait for the credit of the tail, it is held only by  *)
(* a router that learnt that the next one went off.                        *)
LEMMA HeldBefore ==
  ASSUME Inv, Evaluate, NEW i \in Link, ~WaitForTail, Held(i)'
  PROVE  Held(i) /\ Adds(i) = 0
<1>1. i \in Pos /\ PacketsOK(i) /\ phase = "eval"
  BY PosType, EvalFacts DEF Inv
<1>2. ~Sends(i)
  BY <1>1, Sent DEF Held
<1>3. ~Takes(i) /\ ~Returns(i)
  BY <1>1, TakenOrReturned DEF Held
<1>4. ~(power[i] \in Bypassed /\ Queued(i))
  <2>1. ASSUME power[i] \in Bypassed, Queued(i) PROVE FALSE
    <3>1. flitIn[i - 1].tail \in BOOLEAN
      BY <1>1, <2>1, FlyIn, FlitType
    <3>2. image'[i].inUse <=> (flitIn[i - 1].tail => WaitForTail)
      BY <2>1, Flown
    <3>3. image'[i].tail <=> flitIn[i - 1].tail
      BY <2>1, Flown
    <3> QED
      BY <3>1, <3>2, <3>3 DEF Held
  <2> QED
    BY <2>1
<1>5. image'[i] = Image1(i) /\ Adds(i) = 0
  BY <1>2, <1>3, <1>4, EvalCases
<1>6. (Image1(i).tail <=> image[i].tail) /\ (Image1(i).inUse <=> image[i].inUse)
  BY <1>1, Image1Type
<1> QED
  BY <1>5, <1>6 DEF Held

LEMMA EvalHush ==
  ASSUME Inv, Evaluate, NEW i \in Link, Hush(i), Adds(i) = 0, left'[i] = 0
  PROVE  Hush(i)'
<1>1. Open(i)' <=> OpenAfter(Added(i), Open(i))
  BY EvalOpen
<1>2. Added(i) = NoFlit
  <2>1. Added(i) # NoFlit <=> Adds(i) = 1
    BY EvalOpen
  <2> QED
    BY <2>1
<1>3. Flits(i)' = Flits(i) - Bit(Queued(i + 1)) + Adds(i)
  BY EvalCounts
<1>4. ~Queued(i + 1)
  <2>1. Flit1(i) = NoFlit
    BY Counts DEF Hush
  <2> QED
    BY <2>1, EvalPlaces
<1>5. Flits(i)' = 0
  <2>1. Flits(i) = 0
    BY DEF Hush
  <2>2. Bit(Queued(i + 1)) = 0
    BY <1>4 DEF Bit
  <2> QED
    BY <1>3, <2>1, <2>2
<1>6. ~Open(i)'
  BY <1>1, <1>2 DEF Hush, OpenAfter
<1> QED
  BY <1>5, <1>6 DEF Hush

(* The empty buffer that a head flit goes to sends no credit. *)
LEMMA HeadAlone ==
  ASSUME Inv, phase = "eval", NEW i \in Link, WaitForTail, image[i].occ <= Flits(i)
  PROVE  ~Credited(i)
<1>1. i \in Pos /\ i + 1 \in Pos
  BY PosType
<1>2. Use(i + 1) \in Nat /\ Flits(i) \in Nat /\ image[i].occ \in Nat
  BY <1>1, UseType
<1>3. ASSUME Credited(i) PROVE FALSE
  <2>1. image[i].occ > 0
    BY <1>3, CreditMeets
  <2>2. Flits(i) # 0
    BY <1>2, <2>1
  <2>3. ~Live(i + 1, "on") /\ ~Live(i + 1, "off")
    BY <2>2, LiveHush DEF Hush
  <2>4. image[i].occ >= Use(i + 1) + Flits(i) + 1
    BY <1>3, <2>3, CreditMeets
  <2> QED
    BY <1>2, <2>4
<1> QED
  BY <1>3

(* The VC waits for the credit of the tail. *)
LEMMA EvalAlone ==
  ASSUME Inv, Evaluate, NEW i \in Link, WaitForTail
  PROVE  /\ image'[i].occ > 0 => image'[i].inUse
         /\ Held(i)' => image'[i].occ > 0
         /\ Alone(i)'
<1>1. i \in Pos /\ phase = "eval" /\ PacketsOK(i)
  BY PosType, EvalFacts DEF Inv
<1>2. /\ left[i] \in Nat /\ left[i] <= PacketSize[i] /\ PacketSize[i] \in Nat \ {0}
      /\ image[i].occ \in Nat /\ image[i].inUse \in BOOLEAN /\ image[i].tail \in BOOLEAN
  BY <1>1, Typed DEF Inv
<1>3. /\ image[i].occ > 0 => image[i].inUse
      /\ Held(i) => image[i].occ > 0
      /\ Alone(i)
  BY <1>1 DEF PacketsOK
<1>4. image'[i].occ = image[i].occ - Bit(Credited(i)) + Adds(i)
  BY EvalCounts
<1>5. (Credited(i) => image[i].occ > 0 /\ Bit(Credited(i)) = 1) /\ (~Credited(i) => Bit(Credited(i)) = 0)
  BY <1>1, CreditMeets DEF Bit
<1>6. /\ Image1(i).occ = image[i].occ - Bit(Credited(i))
      /\ Image1(i).inUse <=> image[i].inUse /\ ~(Credited(i) /\ WaitForTail /\ image[i].occ = 1 /\ image[i].tail)
      /\ Image1(i).tail <=> image[i].tail
  BY <1>1, Image1Type
<1>7. Image1(i).occ > 0 => Image1(i).inUse
  BY <1>2, <1>3, <1>5, <1>6
<1>8. Image1(i).inUse /\ Image1(i).tail => Image1(i).occ > 0
  BY <1>2, <1>3, <1>5, <1>6 DEF Held
<1>9. left[i] > 0 /\ AtHead(i) => image[i].occ = 0 /\ ~Credited(i)
  BY <1>2, <1>3, <1>5 DEF Alone
<1>10. image'[i].occ > 0 => image'[i].inUse
  <2>1. CASE Sends(i)
    BY <1>1, <2>1, Sent
  <2>2. CASE power[i] \in Bypassed /\ Queued(i)
    BY <2>2, Flown
  <2>3. CASE (Takes(i) \/ Returns(i)) /\ Adds(i) = 0
    <3>1. CASE Takes(i)
      BY <1>1, <3>1, TakenOrReturned
    <3>2. CASE Returns(i)
      BY <1>2, <1>4, <1>5, <1>9, <2>3, <3>2 DEF Returns, MayReturn
    <3> QED
      BY <2>3, <3>1, <3>2
  <2>4. CASE image'[i] = Image1(i)
    BY <1>7, <2>4
  <2> QED
    BY <2>1, <2>2, <2>3, <2>4, EvalCases
<1>11. Held(i)' => image'[i].occ > 0
  <2>1. CASE Adds(i) = 1
    BY <1>2, <1>4, <1>5, <2>1
  <2>2. CASE Takes(i) \/ Returns(i)
    BY <1>1, <2>2, TakenOrReturned DEF Held
  <2>3. CASE image'[i] = Image1(i)
    BY <1>8, <2>3 DEF Held
  <2> QED
    BY <2>1, <2>2, <2>3, EvalCases
<1>12. /\ Flit1(i)' = NoFlit /\ flit'[i] = flit[i] /\ flitOut[i] = NoFlit
       /\ \/ power[i] \in Idle /\ flitOut'[i] = xbar[i] /\ xbar'[i] = Added(i)
          \/ power[i] \in Bypassed /\ xbar[i] = NoFlit /\ flitOut'[i] = Added(i) /\ xbar'[i] = NoFlit
  BY EvalPlaces
<1>13. Adds(i) = Bit(Added(i) # NoFlit)
  <2>1. (Added(i) # NoFlit <=> Adds(i) = 1) /\ Adds(i) \in {0, 1}
    BY EvalOpen, EvalCounts
  <2> QED
    BY <2>1 DEF Bit
<1>14. Bit(flitOut'[i] # NoFlit) + Bit(xbar'[i] # NoFlit) = Bit(xbar[i] # NoFlit) + Adds(i)
  BY <1>12, <1>13 DEF Bit
<1>15. flit'[i].head => image'[i].occ = Bit(flit'[i] # NoFlit) + Bit(flitOut'[i] # NoFlit) + Bit(xbar'[i] # NoFlit)
  <2>1. ASSUME flit[i].head
        PROVE  image'[i].occ = Bit(flit'[i] # NoFlit) + Bit(flitOut'[i] # NoFlit) + Bit(xbar'[i] # NoFlit)
    <3>1. image[i].occ = Bit(flit[i] # NoFlit) + Bit(xbar[i] # NoFlit)
      BY <1>3, <1>12, <2>1 DEF Alone, Bit
    <3>2. image[i].occ <= Flits(i)
      BY <3>1 DEF Flits, Bit
    <3>3. ~Credited(i)
      BY <1>1, <3>2, HeadAlone
    <3>4. image'[i].occ = image[i].occ + Adds(i) /\ Adds(i) \in {0, 1}
      BY <1>2, <1>4, <1>5, <3>3, EvalCounts
    <3>5. /\ Bit(flit'[i] # NoFlit) = Bit(flit[i] # NoFlit)
          /\ Bit(flit[i] # NoFlit) \in {0, 1} /\ Bit(xbar[i] # NoFlit) \in {0, 1}
          /\ Bit(flitOut'[i] # NoFlit) \in {0, 1} /\ Bit(xbar'[i] # NoFlit) \in {0, 1}
      BY <1>12 DEF Bit
    <3> QED
      BY <1>14, <3>1, <3>4, <3>5
  <2> QED
    BY <1>12, <2>1
<1>16. flitOut'[i].head => image'[i].occ = Bit(flitOut'[i] # NoFlit) + Bit(xbar'[i] # NoFlit)
  <2>1. CASE power[i] \in Idle /\ flitOut'[i] = xbar[i] /\ xbar'[i] = Added(i)
    <3>1. ASSUME xbar[i].head
          PROVE  image'[i].occ = Bit(flitOut'[i] # NoFlit) + Bit(xbar'[i] # NoFlit)
      <4>1. image[i].occ = 1 /\ xbar[i] # NoFlit
        BY <1>3, <3>1, FlitType DEF Alone
      <4>2. image[i].occ <= Flits(i)
        BY <4>1 DEF Flits, Bit
      <4>3. ~Credited(i)
        BY <1>1, <4>2, HeadAlone
      <4>4. Bit(xbar[i] # NoFlit) = 1
        BY <4>1 DEF Bit
      <4>5. Bit(flitOut'[i] # NoFlit) + Bit(xbar'[i] # NoFlit) = 1 + Adds(i)
        BY <1>14, <4>4
      <4>6. image'[i].occ = 1 + Adds(i)
        BY <1>2, <1>4, <1>5, <4>1, <4>3, EvalCounts
      <4> QED
        BY <4>5, <4>6
    <3> QED
      BY <2>1, <3>1
  <2>2. CASE power[i] \in Bypassed /\ xbar[i] = NoFlit /\ flitOut'[i] = Added(i) /\ xbar'[i] = NoFlit
    <3>1. ASSUME Added(i).head
          PROVE  image'[i].occ = Bit(flitOut'[i] # NoFlit) + Bit(xbar'[i] # NoFlit)
      <4>1. Added(i) # NoFlit
        BY <3>1, FlitType
      <4>2. Queued(i) /\ Added(i) = flitIn[i - 1]
        BY <2>2, <4>1 DEF Added, Idle, Bypassed
      <4>3. image[i].occ = 0
        BY <1>1, <2>2, <3>1, <4>2, FlyIn
      <4>4. ~Credited(i)
        BY <1>5, <4>3
      <4>5. Adds(i) = 1
        BY <1>13, <4>1 DEF Bit
      <4>6. image'[i].occ = 1
        BY <1>4, <1>5, <4>3, <4>4, <4>5
      <4> QED
        BY <2>2, <4>1, <4>6 DEF Bit
    <3> QED
      BY <2>2, <3>1
  <2> QED
    BY <1>12, <2>1, <2>2
<1>17. xbar'[i].head => image'[i].occ = 1
  <2>1. ASSUME xbar'[i].head PROVE image'[i].occ = 1
    <3>1. xbar'[i] # NoFlit
      BY <2>1, FlitType
    <3>2. power[i] \in Idle /\ Added(i) # NoFlit
      BY <1>12, <3>1
    <3>3. Adds(i) = 1
      BY <1>13, <3>2 DEF Bit
    <3>4. Sends(i)
      BY <3>2, <3>3, EvalCases DEF Idle, Bypassed
    <3>5. AtHead(i) /\ left[i] > 0
      BY <1>1, <2>1, <3>4, Sent
    <3> QED
      BY <1>4, <1>5, <1>9, <3>3, <3>5
  <2> QED
    BY <2>1
<1>18. left'[i] > 0 /\ AtHead(i)' => image'[i].occ = 0
  <2>1. ASSUME left'[i] > 0, left'[i] = PacketSize[i] PROVE image'[i].occ = 0
    <3>1. ~Sends(i) /\ ~Returns(i)
      BY <1>2, <2>1 DEF Sends, Returns
    <3>2. CASE Takes(i) /\ Adds(i) = 0
      <4>1. ~Image1(i).inUse
        BY <3>2 DEF Takes, MayTake
      <4> QED
        BY <1>2, <1>4, <1>5, <1>6, <1>7, <3>2, <4>1
    <3>3. CASE left'[i] = left[i] /\ Adds(i) = 0
      BY <1>4, <1>5, <1>9, <2>1, <3>3 DEF AtHead
    <3> QED
      BY <2>1, <3>1, <3>2, <3>3, EvalCases
  <2> QED
    BY <2>1 DEF AtHead
<1>19. ~Flit1(i)'.head
  BY <1>12, FlitType
<1> QED
  BY <1>10, <1>11, <1>15, <1>16, <1>17, <1>18, <1>19 DEF Alone

(* Who holds the VC. *)
LEMMA EvalVc ==
  ASSUME Inv, Evaluate, NEW i \in Link
  PROVE  /\ left'[i] > 0 => image'[i].inUse /\ ~image'[i].tail
         /\ power'[i] \in Idle /\ left'[i] = 0 /\ image'[i].inUse => image'[i].tail
<1>1. i \in Pos /\ phase = "eval" /\ PacketsOK(i) /\ power' = power
  BY PosType, EvalFacts DEF Inv
<1>2. /\ left[i] \in Nat /\ left[i] <= PacketSize[i] /\ PacketSize[i] \in Nat \ {0}
      /\ image[i].inUse \in BOOLEAN /\ image[i].tail \in BOOLEAN
  BY <1>1, Typed DEF Inv
<1>3. /\ left[i] > 0 => image[i].inUse /\ ~image[i].tail
      /\ power[i] \in Idle /\ left[i] = 0 /\ image[i].inUse => image[i].tail
  BY <1>1 DEF PacketsOK
<1>4. CASE Sends(i)
  BY <1>1, <1>2, <1>4, Sent
<1>5. CASE power[i] \in Bypassed /\ left'[i] = 0
  BY <1>1, <1>5 DEF Idle, Bypassed
<1>6. CASE Takes(i)
  BY <1>1, <1>2, <1>6, TakenOrReturned DEF Takes
<1>7. CASE Returns(i)
  <2>1. ~Takes(i)
    BY <1>2, <1>7 DEF Returns, Takes
  <2> QED
    BY <1>1, <1>7, <2>1, TakenOrReturned DEF Returns
<1>8. CASE image'[i] = Image1(i) /\ left'[i] = left[i]
  <2>1. /\ Image1(i).inUse <=> image[i].inUse /\ ~(Credited(i) /\ WaitForTail /\ image[i].occ = 1 /\ image[i].tail)
        /\ Image1(i).tail <=> image[i].tail
    BY <1>1, Image1Type
  <2> QED
    BY <1>1, <1>3, <1>8, <2>1
<1> QED
  BY <1>4, <1>5, <1>6, <1>7, <1>8, EvalCases

(* A router that still hands slots over is not flown over, and the router  *)
(* West of it keeps the VC.                                                *)
LEMMA HandingOver ==
  ASSUME Inv, Evaluate, NEW i \in Link, power[i + 1] \in Bypassed, counter[i + 1] > 0,
         ~Live(i + 1, "off")
  PROVE  /\ Held(i) /\ Hush(i) /\ Held(i)' /\ Hush(i)' /\ Image1(i).inUse
         /\ ~Queued(i + 1)
<1>1. i \in Pos /\ i + 1 \in Pos /\ phase = "eval" /\ PacketsOK(i) /\ SlotsOK(i)
  BY PosType, EvalFacts DEF Inv
<1>2. Held(i) /\ Hush(i)
  BY <1>1 DEF PacketsOK
<1>3. image[i].occ \in Nat /\ image[i + 1].occ \in Nat /\ counter[i + 1] \in Nat /\ Flits(i) \in Nat
  BY <1>1, UseType
<1>4. Use(i + 1) >= 1
  BY <1>3 DEF Use, Idle, Bypassed
<1>5. ~Live(i + 1, "on")
  BY <1>1, <1>4 DEF SlotsOK
<1>6. Credited(i) => image[i].occ # 1
  <2>1. Credited(i) => image[i].occ >= Use(i + 1) + Flits(i) + 1
    BY <1>1, <1>5, CreditMeets
  <2>2. Use(i + 1) \in Nat
    BY <1>1, UseType
  <2> QED
    BY <1>3, <1>4, <2>1, <2>2
<1>7. Image1(i).inUse
  BY <1>1, <1>2, <1>6, Image1Type DEF Held
<1>8. Held(i)' /\ Adds(i) = 0 /\ left'[i] = left[i]
  BY <1>2, <1>7, HeldStays
<1>9. Hush(i)'
  BY <1>2, <1>8, EvalHush DEF Hush
<1>10. ~Queued(i + 1)
  <2>1. Flit1(i) = NoFlit
    BY <1>2, Counts DEF Hush
  <2> QED
    BY <2>1, EvalPlaces
<1> QED
  BY <1>2, <1>7, <1>8, <1>9, <1>10

LEMMA EvalPackets ==
  ASSUME Inv, Evaluate, NEW i \in Link
  PROVE  PacketsOK(i)'
<1> DEFINE d == i + 1
<1>1. i \in Pos /\ d \in Pos /\ phase = "eval" /\ PacketsOK(i) /\ power' = power
  BY PosType, EvalFacts DEF Inv
<1>2. \A src \in {"on", "off"} : Live(d, src)' <=> Live(d, src)
  BY <1>1, EvalCredits
<1>3. power[d] \in Bypassed => d \in Link
  <2>1. power[Last] \notin Bypassed
    BY DEF Inv, Rest, Bypassed
  <2> QED
    BY <1>1, <2>1, FlyCreditsAssumption DEF Pos, Link
<1>4. left'[i] > 0 => image'[i].inUse /\ ~image'[i].tail
  BY EvalVc
<1>5. power'[i] \in Idle /\ left'[i] = 0 /\ image'[i].inUse => image'[i].tail
  BY EvalVc
<1>6. WaitForTail =>
       /\ image'[i].occ > 0 => image'[i].inUse
       /\ Held(i)' => image'[i].occ > 0
       /\ Alone(i)'
  BY EvalAlone
<1>7. power'[d] \in Bypassed => InOrder(i)'
  BY <1>1, EvalInOrder
<1>8. ~WaitForTail /\ Held(i)' => Flits(i)' = 0
  <2>1. ASSUME ~WaitForTail, Held(i)' PROVE Flits(i)' = 0
    <3>1. Held(i) /\ Adds(i) = 0
      BY <2>1, HeldBefore
    <3>2. Flits(i) = 0
      BY <1>1, <2>1, <3>1 DEF PacketsOK
    <3>3. ~Queued(d)
      BY <3>2, Counts, EvalPlaces
    <3>4. Bit(Queued(d)) = 0
      BY <3>3 DEF Bit
    <3> QED
      BY <3>1, <3>2, <3>4, EvalCounts
  <2> QED
    BY <2>1
<1>9. ~WaitForTail /\ power'[d] \in Bypassed /\ Held(d)' => Held(i)' \/ Live(d, "off")'
  <2>1. ASSUME ~WaitForTail, power[d] \in Bypassed, Held(d)', ~Live(d, "off") PROVE Held(i)'
    <3>1. Held(d)
      BY <1>3, <2>1, HeldBefore
    <3>2. Held(i)
      BY <1>1, <2>1, <3>1 DEF PacketsOK
    <3>3. Image1(i).inUse
      BY <1>1, <2>1, <3>2, Image1Type DEF Held
    <3> QED
      BY <3>2, <3>3, HeldStays
  <2> QED
    BY <1>1, <1>2, <2>1
<1>10. power'[d] \in Bypassed /\ counter'[d] > 0 => Live(d, "off")' \/ (Held(i)' /\ Hush(i)')
  <2>1. ASSUME power[d] \in Bypassed, counter'[d] > 0, ~Live(d, "off") PROVE Held(i)' /\ Hush(i)'
    <3>1. counter[d] > 0
      <4>1. counter'[d] = counter[d] - Bit(HandsOver(d)) /\ counter[d] \in Nat
        BY <1>1, <2>1, EvalFacts, UseType
      <4> QED
        BY <2>1, <4>1 DEF Bit
    <3> QED
      BY <2>1, <3>1, HandingOver
  <2> QED
    BY <1>1, <1>2, <2>1
<1>11. power'[d] \in Bypassed /\ Live(d, "on")' => ~image'[d].inUse
  <2>1. ASSUME power[d] \in Bypassed, Live(d, "on") PROVE ~image'[d].inUse
    <3>1. ~image[d].inUse
      BY <1>1, <2>1 DEF PacketsOK
    <3>2. Hush(i)
      BY <1>1, <2>1, LiveHush
    <3>3. Flit1(i) = NoFlit
      BY <3>2, Counts DEF Hush
    <3>4. ~Queued(d)
      BY <3>3, EvalPlaces
    <3>5. image'[d] = Image1(d)
      BY <1>1, <2>1, <3>4, EvalFacts DEF FlownOver
    <3> QED
      BY <1>1, <3>1, <3>5, Image1Type
  <2> QED
    BY <1>1, <1>2, <2>1
<1> QED
  BY <1>4, <1>5, <1>6, <1>7, <1>8, <1>9, <1>10, <1>11 DEF PacketsOK

(* Every cycle a slot is handed over, or a credit relayed. *)
LEMMA EvalCycles ==
  ASSUME Inv, Evaluate, NEW m \in Pos, NEW n \in Nat, Cycles(m, n)
  PROVE  Cycles(m, n)'
<1>1. phase = "eval" /\ phase' = "write" /\ power' = power
  BY EvalFacts
<1>2. ASSUME power[m] \in Bypassed, counter'[m] > 0
      PROVE  image'[m].occ + counter'[m] + n + 1 <= Size
  <2> DEFINE i == m - 1
  <2>1. i \in Link /\ i + 1 = m
    <3>1. m # 0
      BY <1>2 DEF Inv, Rest, Bypassed
    <3> QED
      BY <3>1, FlyCreditsAssumption DEF Pos, Link
  <2> HIDE DEF i
  <2>2. counter[m] \in Nat /\ image[m].occ \in Nat /\ Size \in Nat
    BY UseType
  <2>3. /\ counter'[m] = counter[m] - Bit(HandsOver(m))
        /\ m \in credOut' <=> Credited(m) \/ HandsOver(m)
    BY <1>2, EvalFacts
  <2>4. counter[m] > 0
    BY <1>2, <2>2, <2>3 DEF Bit
  <2>5. ~Queued(m)
    <3>1. CASE Live(m, "off")
      <4>1. Hush(i)
        BY <1>1, <2>1, <3>1, LiveHush
      <4>2. Flit1(i) = NoFlit
        BY <4>1, Counts DEF Hush
      <4> QED
        BY <2>1, <4>2, EvalPlaces
    <3>2. CASE ~Live(m, "off")
      BY <1>2, <2>1, <2>4, <3>2, HandingOver
    <3> QED
      BY <3>1, <3>2
  <2>6. m \in credOut'
    BY <1>2, <2>3, <2>4 DEF HandsOver
  <2>7. Use(m)' = Use(m) - 1
    <3>1. Use(m)' = Use(m) + Bit(Queued(m)) - Bit(m \in credOut')
      BY EvalCredits
    <3>2. Bit(Queued(m)) = 0 /\ Bit(m \in credOut') = 1
      BY <2>5, <2>6 DEF Bit
    <3> QED
      BY <3>1, <3>2, UseType
  <2>8. Use(m) = image[m].occ + counter[m] /\ Use(m)' = image'[m].occ + counter'[m]
    BY <1>1, <1>2 DEF Use, Idle, Bypassed
  <2>9. image[m].occ + counter[m] + n <= Size
    BY <1>1, <1>2, <2>2, <2>4 DEF Cycles, Bit
  <2> QED
    BY <2>2, <2>7, <2>8, <2>9
<1> QED
  BY <1>1, <1>2 DEF Cycles, Bit

(* A router that has no packet sends nothing while it sees the next one    *)
(* off, or is off itself and nothing comes to it.                          *)
LEMMA NoneAdded ==
  ASSUME Inv, Evaluate, NEW i \in Link, left[i] = 0,
         \/ power[i] \in Idle /\ down[i] # "on"
         \/ power[i] \in Bypassed /\ ~Queued(i)
  PROVE  /\ left'[i] = 0 /\ xbar'[i] = NoFlit /\ (xbar[i] = NoFlit => flitOut'[i] = NoFlit)
         /\ (Open(i)' <=> Open(i)) /\ (Hush(i) => Hush(i)')
<1>1. ~Sends(i) /\ ~Returns(i) /\ ~(power[i] \in Bypassed /\ Queued(i)) /\ ~(power[i] \in Idle /\ Takes(i))
  BY DEF Sends, MaySend, Returns, MayReturn, Takes, MayTake, Idle, Bypassed
<1>2. left'[i] = left[i] /\ Adds(i) = 0 /\ Added(i) = NoFlit
  BY <1>1, EvalCases
<1>3. Hush(i) => Hush(i)'
  BY <1>2, EvalHush
<1>4. Open(i)' <=> Open(i)
  BY <1>2, EvalOpen DEF OpenAfter
<1> QED
  BY <1>2, <1>3, <1>4, EvalPlaces

(* The quiet stretch from the router that answered stays quiet. *)
LEMMA EvalStretch ==
  ASSUME Inv, Evaluate, NEW c \in Middle, NEW u \in 0 .. c - 1, NEW j \in u .. c, Beyond(u, c),
         down[u] # "on", \A i \in u .. j - 1 : Hush(i)
  PROVE  /\ \A i \in u .. j - 1 : Hush(i)'
         /\ j < c /\ left[j] = 0 => /\ left'[j] = 0 /\ xbar'[j] = NoFlit
                                    /\ (xbar[j] = NoFlit => flitOut'[j] = NoFlit)
                                    /\ (Open(j)' <=> Open(j))
<1>1. u \in Nat /\ j \in Nat /\ c \in Nat /\ c >= 1 /\ c < Last /\ u <= j /\ j <= c /\ u < c
  BY StretchType
<1>2. ASSUME NEW i \in u .. j, i < c
      PROVE  /\ i \in Link
             /\ \/ power[i] \in Idle /\ down[i] # "on"
                \/ power[i] \in Bypassed /\ ~Queued(i)
  <2>1. i \in Nat /\ u <= i /\ i <= j /\ i \in Link
    BY <1>1, <1>2, StretchType
  <2>2. CASE i = u
    BY <2>1, <2>2 DEF Beyond, Idle
  <2>3. CASE i # u
    <3>1. i \in u + 1 .. c - 1 /\ i - 1 \in u .. j - 1
      BY <1>1, <1>2, <2>1, <2>3
    <3>2. power[i] = "off" /\ Hush(i - 1)
      BY <3>1 DEF Beyond
    <3>3. flitIn[i - 1] = NoFlit
      <4>1. Flit1(i - 1) = NoFlit
        BY <3>2, Counts DEF Hush
      <4> QED
        BY <4>1, EvalFacts DEF Flit1
    <3> QED
      BY <2>1, <3>2, <3>3 DEF Bypassed, Queued
  <2> QED
    BY <2>2, <2>3
<1>3. ASSUME NEW i \in u .. j - 1 PROVE Hush(i)'
  <2>1. i \in u .. j /\ i < c /\ Hush(i) /\ left[i] = 0
    BY <1>1 DEF Hush
  <2> QED
    BY <1>2, <2>1, NoneAdded
<1>4. ASSUME j < c, left[j] = 0
      PROVE  /\ left'[j] = 0 /\ xbar'[j] = NoFlit /\ (xbar[j] = NoFlit => flitOut'[j] = NoFlit)
             /\ (Open(j)' <=> Open(j))
  <2>1. j \in u .. j
    BY <1>1
  <2> QED
    BY <1>2, <1>4, <2>1, NoneAdded
<1> QED
  BY <1>3, <1>4

(* Only the router that the next change of state is announced to answers.  *)
LEMMA Responders ==
  ASSUME Inv, NEW u \in Int, NEW k \in Int, NEW s, Seen(u, k, s),
         \A i \in u + 1 .. k - 1 : power[i] = "off",
         NEW i \in Pos, Responds(i)
  PROVE  i = u /\ u < k /\ power[u] \in Idle /\ u \notin sent
<1>1. down[i] \in {"draining", "wakeup"} /\ power[i] \in Idle /\ i \notin sent
  BY DEF Responds
<1>2. i \in u .. k - 1
  BY <1>1 DEF Seen
<1>3. i = u \/ i \in u + 1 .. k - 1
  BY <1>2
<1> QED
  BY <1>1, <1>2, <1>3 DEF Idle

LEMMA EvalKeeps ==
  ASSUME Inv, Evaluate
  PROVE  /\ phase = "eval" /\ phase' = "write"
         /\ UNCHANGED <<power, down, tag, annIn, flit>>
         /\ \A c, s : Only(c, s) => Only(c, s)'
         /\ Steady => Steady'
         /\ \A u, c, s : Seen(u, c, s) => Seen(u, c, s)'
         /\ \A u, c : Beyond(u, c) => Beyond(u, c)'
         /\ NoAnns => NoAnns'
         /\ \A j, slot, a : OnlyAnn(j, slot, a) => OnlyAnn(j, slot, a)' /\ slot # "in"
         /\ \A j, slot : OnlyAns(j, slot) => slot # "in"
         /\ \A m \in Pos, n \in Nat : Cycles(m, n) => Cycles(m, n)'
         /\ (\A i \in Pos : ~Responds(i)) =>
              /\ sent' = sent /\ ansOut' = ansOut /\ (NoAnswer => NoAnswer')
              /\ \A j, slot : OnlyAns(j, slot) => OnlyAns(j, slot)'
<1>1. /\ phase = "eval" /\ phase' = "write"
      /\ UNCHANGED <<power, down, tag, annOut, ann, annIn, ans, ansIn, flit>>
  BY EvalFacts
<1>2. \A m \in Pos, n \in Nat : Cycles(m, n) => Cycles(m, n)'
  BY EvalCycles
<1>3. \A j, slot, a : OnlyAnn(j, slot, a) => OnlyAnn(j, slot, a)' /\ slot # "in"
  BY <1>1 DEF OnlyAnn
<1>4. NoAnns => NoAnns'
  BY <1>1 DEF NoAnns, OnlyAnn
<1>5. \A j, slot : OnlyAns(j, slot) => slot # "in"
  BY <1>1 DEF OnlyAns
<1>6. ASSUME \A i \in Pos : ~Responds(i)
      PROVE  /\ sent' = sent /\ ansOut' = ansOut /\ (NoAnswer => NoAnswer')
             /\ \A j, slot : OnlyAns(j, slot) => OnlyAns(j, slot)'
  <2>1. {i \in Pos : Responds(i)} = {}
    BY <1>6
  <2>2. sent' = sent /\ ansOut' = ansOut
    BY <2>1 DEF Evaluate
  <2> QED
    BY <1>1, <2>2 DEF NoAnswer, OnlyAns
<1> QED
  BY <1>1, <1>2, <1>3, <1>4, <1>5, <1>6 DEF Only, Steady, Seen, Beyond

LEMMA EvalStill ==
  ASSUME Inv, Evaluate, Still
  PROVE  Handshake'
<1>1. \A i \in Pos : ~Responds(i)
  <2>1. Seen(0, 0, "on") /\ 0 \in Int
    BY DEF Still
  <2>2. 0 + 1 .. 0 - 1 = {}
    OBVIOUS
  <2> QED
    BY <2>1, <2>2, Responders
<1>2. /\ Steady' /\ NoAnns' /\ NoAnswer' /\ tag' = {} /\ sent' = {} /\ Seen(0, 0, "on")' /\ annIn' = annIn
  BY <1>1, EvalKeeps DEF Still
<1>3. \A m \in Pos : Cycles(m, IF \A i \in Pos : annIn[i] = NoAnn THEN 3 ELSE 2)'
  <2>1. (IF \A i \in Pos : annIn[i] = NoAnn THEN 3 ELSE 2) \in Nat
    OBVIOUS
  <2>2. ASSUME NEW m \in Pos, NEW n \in Nat, Cycles(m, n) PROVE Cycles(m, n)'
    BY <2>2, EvalCycles
  <2>3. CASE \A i \in Pos : annIn[i] = NoAnn
    BY <1>2, <2>2, <2>3 DEF Still
  <2>4. CASE ~ \A i \in Pos : annIn[i] = NoAnn
    BY <1>2, <2>2, <2>4 DEF Still
  <2> QED
    BY <2>3, <2>4
<1> QED
  BY <1>2, <1>3 DEF Handshake, Still

LEMMA EvalAsking ==
  ASSUME Inv, Evaluate, NEW c \in Middle, NEW s \in {"draining", "wakeup"},
         NEW j \in 1 .. c, NEW slot \in Slot, Asking(c, s, j, slot)
  PROVE  Handshake'
<1>1. c \in Int /\ j \in Int /\ j <= c /\ j >= 1 /\ Delay(slot) \in Nat
  BY StretchType, DelayType
<1>2. \A i \in Pos : ~Responds(i)
  <2>1. Seen(j, c, s) /\ \A i \in j + 1 .. c - 1 : power[i] = "off"
    BY <1>1 DEF Asking
  <2>2. j < c => power[j] = "off"
    BY <1>1 DEF Asking
  <2> QED
    BY <1>1, <2>1, <2>2, Responders DEF Idle
<1>3. /\ Only(c, s)' /\ (\A i \in j .. c - 1 : power'[i] = "off") /\ NoAnswer'
      /\ tag' = {} /\ sent' = {} /\ Seen(j, c, s)'
  BY <1>2, EvalKeeps DEF Asking
<1>4. OnlyAnn(j, slot, [src |-> s, new |-> s])'
  <2> DEFINE a == [src |-> s, new |-> s]
  <2>1. OnlyAnn(j, slot, a)
    BY DEF Asking
  <2> HIDE DEF a
  <2>2. OnlyAnn(j, slot, a)'
    BY <2>1, EvalKeeps
  <2> QED
    BY <2>2 DEF a, OnlyAnn
<1>5. ASSUME NEW m \in Pos
      PROVE  Cycles(m, CASE m < j -> 3 + Delay(slot)
                         [] m \in j .. c - 1 -> 5 + Delay(slot)
                         [] m >= c -> 3)'
  <2>1. m \in Int
    BY PosType
  <2>2. CASE m < j
    <3>1. Cycles(m, 3 + Delay(slot))
      BY <1>1, <2>1, <2>2 DEF Asking
    <3>2. Cycles(m, 3 + Delay(slot))'
      BY <1>1, <3>1, EvalCycles
    <3> QED
      BY <1>1, <2>1, <2>2, <3>2
  <2>3. CASE m \in j .. c - 1
    <3>1. Cycles(m, 5 + Delay(slot))
      BY <1>1, <2>1, <2>3 DEF Asking
    <3>2. Cycles(m, 5 + Delay(slot))'
      BY <1>1, <3>1, EvalCycles
    <3> QED
      BY <1>1, <2>1, <2>3, <3>2
  <2>4. CASE m >= c
    <3>1. Cycles(m, 3)
      BY <1>1, <2>1, <2>4 DEF Asking
    <3>2. Cycles(m, 3)'
      BY <3>1, EvalCycles
    <3> QED
      BY <1>1, <2>1, <2>4, <3>2
  <2> QED
    BY <1>1, <2>1, <2>2, <2>3, <2>4
<1>6. Asking(c, s, j, slot)'
  BY <1>3, <1>4, <1>5 DEF Asking
<1> QED
  BY <1>6, Stages

LEMMA EvalWaiting ==
  ASSUME Inv, Evaluate, NEW c \in Middle, NEW s \in {"draining", "wakeup"},
         NEW u \in 0 .. c - 1, Waiting(c, s, u)
  PROVE  Handshake'
<1>1. c \in Int /\ u \in Int /\ u < c /\ u \in Pos /\ u \in Link
  BY StretchType
<1>2. /\ Only(c, s)' /\ Beyond(u, c)' /\ NoAnns' /\ tag' = {} /\ Seen(u, c, s)' /\ phase' = "write"
  BY EvalKeeps DEF Waiting
<1>3. \A m \in Pos : Cycles(m, IF m \in u + 1 .. c - 1 THEN 7 ELSE 3)'
  BY EvalCycles DEF Waiting
<1>4. \A i \in Pos : Responds(i) => i = u
  BY <1>1, Responders DEF Waiting, Beyond
<1>5. CASE ~Responds(u)
  <2>1. sent' = sent /\ NoAnswer'
    BY <1>4, <1>5, EvalKeeps DEF Waiting
  <2> QED
    BY <1>2, <1>3, <2>1 DEF Handshake, Waiting
<1>6. CASE Responds(u)
  <2>1. sent' = {u} /\ ansOut' = {u}
    <3>1. {i \in Pos : Responds(i)} = {u}
      BY <1>1, <1>4, <1>6
    <3>2. sent = {} /\ ansOut = {}
      BY DEF Waiting, NoAnswer, OnlyAns
    <3> QED
      BY <3>1, <3>2 DEF Evaluate
  <2>2. OnlyAns(u, "out")'
    BY <1>2, <2>1, EvalFacts DEF Waiting, NoAnswer, OnlyAns
  <2>3. left'[u] = 0 /\ xbar'[u] = NoFlit /\ flitOut'[u] = NoFlit /\ power'[u] \in Idle
    BY <1>6, EvalFacts DEF Responds
  <2>4. ~Open(u)'
    BY <2>3 DEF Open
  <2>5. \A i \in u .. u - 1 : Hush(i)'
    BY <1>1
  <2>6. ASSUME NEW m \in Pos
        PROVE  Cycles(m, CASE m \in u + 1 .. u -> 9 + Delay("out")
                           [] m \in u + 1 .. c - 1 -> 7 + Delay("out")
                           [] m \notin u + 1 .. c - 1 -> 3)'
    <3>1. m \notin u + 1 .. u /\ Delay("out") = 0 /\ 7 + 0 = 7
      BY <1>1 DEF Delay
    <3>2. CASE m \in u + 1 .. c - 1
      BY <1>3, <3>1, <3>2
    <3>3. CASE m \notin u + 1 .. c - 1
      BY <1>3, <3>1, <3>3
    <3> QED
      BY <3>2, <3>3
  <2>7. u \in u .. c - 1 /\ "out" \in Slot
    BY <1>1 DEF Slot
  <2>8. Answering(c, s, u, u, "out")'
    BY <1>2, <2>1, <2>2, <2>3, <2>4, <2>5, <2>6 DEF Answering
  <2> QED
    BY <2>7, <2>8, Stages
<1> QED
  BY <1>5, <1>6

LEMMA EvalAnswering ==
  ASSUME Inv, Evaluate, NEW c \in Middle, NEW s \in {"draining", "wakeup"},
         NEW u \in 0 .. c - 1, NEW j \in u .. c - 1, NEW slot \in Slot, Answering(c, s, u, j, slot)
  PROVE  Handshake'
<1>1. c \in Int /\ u \in Int /\ j \in Int /\ u <= j /\ j < c /\ u \in Pos /\ Delay(slot) \in Nat
  BY StretchType, DelayType
<1>2. \A i \in Pos : ~Responds(i)
  BY <1>1, Responders DEF Answering, Beyond
<1>3. /\ Only(c, s)' /\ Beyond(u, c)' /\ NoAnns' /\ OnlyAns(j, slot)' /\ slot # "in"
      /\ tag' = {} /\ sent' = {u} /\ Seen(u, c, s)' /\ flit' = flit
  BY <1>2, EvalKeeps DEF Answering
<1>4. down[u] # "on" /\ j \in u .. c
  BY <1>1 DEF Answering, Seen
<1>5. \A i \in u .. j - 1 : Hush(i)'
  BY <1>4, EvalStretch DEF Answering
<1>6. left'[j] = 0 /\ xbar'[j] = NoFlit /\ flitOut'[j] = NoFlit /\ ~Open(j)'
  BY <1>1, <1>4, EvalStretch DEF Answering
<1>7. ASSUME NEW m \in Pos
      PROVE  Cycles(m, CASE m \in u + 1 .. j -> 9 + Delay(slot)
                         [] m \in j + 1 .. c - 1 -> 7 + Delay(slot)
                         [] m \notin u + 1 .. c - 1 -> 3)'
  <2>1. m \in Int
    BY PosType
  <2>2. CASE m \in u + 1 .. j
    <3>1. Cycles(m, 9 + Delay(slot))
      BY <1>1, <2>1, <2>2 DEF Answering
    <3>2. Cycles(m, 9 + Delay(slot))'
      BY <1>1, <3>1, EvalCycles
    <3> QED
      BY <1>1, <2>1, <2>2, <3>2
  <2>3. CASE m \in j + 1 .. c - 1
    <3>1. Cycles(m, 7 + Delay(slot))
      BY <1>1, <2>1, <2>3 DEF Answering
    <3>2. Cycles(m, 7 + Delay(slot))'
      BY <1>1, <3>1, EvalCycles
    <3> QED
      BY <1>1, <2>1, <2>3, <3>2
  <2>4. CASE m \notin u + 1 .. c - 1
    <3>1. m \notin u + 1 .. j /\ m \notin j + 1 .. c - 1
      BY <1>1, <2>1, <2>4
    <3>2. Cycles(m, 3)
      BY <2>4, <3>1 DEF Answering
    <3>3. Cycles(m, 3)'
      BY <3>2, EvalCycles
    <3> QED
      BY <2>4, <3>1, <3>3
  <2> QED
    BY <1>1, <2>1, <2>2, <2>3, <2>4
<1>8. slot \in {"wire", "in"} => flit'[j] = NoFlit
  BY <1>3 DEF Answering
<1>9. Answering(c, s, u, j, slot)'
  BY <1>3, <1>5, <1>6, <1>7, <1>8 DEF Answering
<1> QED
  BY <1>9, Stages

LEMMA EvalAgreed ==
  ASSUME Inv, Evaluate, NEW c \in Middle, NEW s \in {"draining", "wakeup"},
         NEW u \in 0 .. c - 1, Agreed(c, s, u)
  PROVE  Handshake'
<1>1. c \in Int /\ u \in Int /\ u < c /\ u \in Pos
  BY StretchType
<1>2. \A i \in Pos : ~Responds(i)
  BY <1>1, Responders DEF Agreed, Beyond
<1>3. /\ Only(c, s)' /\ Beyond(u, c)' /\ NoAnns' /\ NoAnswer'
      /\ tag' = {c} /\ sent' = {u} /\ Seen(u, c, s)'
  BY <1>2, EvalKeeps DEF Agreed
<1>4. down[u] # "on" /\ c \in u .. c
  BY <1>1 DEF Agreed, Seen
<1>5. \A i \in u .. c - 1 : Hush(i)'
  BY <1>4, EvalStretch DEF Agreed
<1>6. \A m \in Pos : Cycles(m, IF m \in u + 1 .. c - 1 THEN 11 ELSE 3)'
  BY EvalCycles DEF Agreed
<1>7. Agreed(c, s, u)'
  BY <1>3, <1>5, <1>6 DEF Agreed
<1> QED
  BY <1>7, Stages

LEMMA EvalTelling ==
  ASSUME Inv, Evaluate, NEW c \in Middle, NEW s \in {"draining", "wakeup"},
         NEW u \in 0 .. c - 1, NEW j \in u + 1 .. c, NEW slot \in Slot, Telling(c, s, u, j, slot)
  PROVE  Handshake'
<1>1. c \in Int /\ u \in Int /\ j \in Int /\ u < j /\ j <= c /\ u \in Pos /\ Delay(slot) \in Nat
  BY StretchType, DelayType
<1>2. \A i \in Pos : ~Responds(i)
  <2>1. \A i \in u + 1 .. j - 1 : i \in u + 1 .. c - 1
    BY <1>1
  <2> QED
    BY <1>1, <2>1, Responders DEF Telling, Beyond
<1>3. power' = power
  BY EvalKeeps
<1>4. /\ Steady' /\ Beyond(u, c)' /\ power'[c] = (IF s = "draining" THEN "off" ELSE "on") /\ NoAnswer'
      /\ tag' = {} /\ sent' = {u} /\ Seen(u, j, s)'
  BY <1>2, EvalKeeps DEF Telling
<1>5. OnlyAnn(j, slot, [src |-> power[c], new |-> "on"])'
  <2> DEFINE a == [src |-> power[c], new |-> "on"]
  <2>1. OnlyAnn(j, slot, a) /\ a' = a
    BY <1>3 DEF Telling
  <2> HIDE DEF a
  <2>2. annOut' = annOut /\ ann' = ann /\ annIn' = annIn /\ phase = "eval" /\ phase' = "write"
    BY EvalFacts
  <2>3. OnlyAnn(j, slot, a)'
    BY <2>1, <2>2 DEF OnlyAnn
  <2> QED
    BY <2>3 DEF a
<1>6. down[u] # "on" /\ c \in u .. c
  BY <1>1 DEF Telling, Seen
<1>7. \A i \in u .. c - 1 : Hush(i)'
  BY <1>6, EvalStretch DEF Telling
<1>8. ASSUME NEW m \in Pos
      PROVE  Cycles(m, IF m \in u + 1 .. j - 1 THEN 11 + Delay(slot) ELSE Delay(slot))'
  <2>1. CASE m \in u + 1 .. j - 1
    <3>1. Cycles(m, 11 + Delay(slot))
      BY <2>1 DEF Telling
    <3>2. 11 + Delay(slot) \in Nat
      BY <1>1
    <3>3. Cycles(m, 11 + Delay(slot))'
      BY <3>1, <3>2, EvalCycles
    <3> QED
      BY <2>1, <3>3
  <2>2. CASE m \notin u + 1 .. j - 1
    <3>1. Cycles(m, Delay(slot))
      BY <2>2 DEF Telling
    <3> QED
      BY <1>1, <2>2, <3>1, EvalCycles
  <2> QED
    BY <2>1, <2>2
<1>9. Telling(c, s, u, j, slot)'
  BY <1>3, <1>4, <1>5, <1>7, <1>8 DEF Telling
<1> QED
  BY <1>9, Stages

LEMMA EvalImages ==
  ASSUME Inv, Evaluate, NEW i \in Pos
  PROVE  image'[i] \in Images
<1>1. image[i] \in Images /\ Image1(i) \in Images /\ phase = "eval"
  BY Image1Type, EvalFacts
<1>2. \E f : f \in Flit
  <2>1. [head |-> TRUE, tail |-> TRUE, none |-> FALSE] \in Flit
    BY DEF Flit
  <2> QED
    BY <2>1
<1>3. CASE power[i] \in Idle
  <2>1. Takes(i) \/ Sends(i) \/ Returns(i) \/ Rests(i)
    BY <1>3, EvalFacts
  <2>2. Scheduled(i) \in Flit
    BY DEF Scheduled, Flit, AtHead
  <2> QED
    BY <1>1, <2>1, <2>2, Buffers DEF Takes, Sends, Returns, Rests
<1>4. CASE power[i] \in Bypassed
  <2> DEFINE f == flitIn[i - 1]
             e == IF f.head THEN TakeBuffer(image[i]) ELSE image[i]
             b == SendingFlit(e, f)
  <2>1. image'[i] = FlownOver(i)
    BY <1>4, EvalFacts
  <2>2. CASE ~Queued(i)
    BY <1>1, <2>1, <2>2 DEF FlownOver
  <2>3. CASE Queued(i)
    <3>1. f \in Flit
      BY <1>1, <2>3, FlyIn
    <3>2. image'[i] = IF Credited(i) THEN ProcessCredit(b) ELSE b
      BY <2>1, <2>3 DEF FlownOver
    <3> HIDE DEF f
    <3>3. TakeBuffer(image[i]) \in Images
      BY <1>1, <1>2, Buffers
    <3>4. e \in Images
      BY <1>1, <3>3
    <3> HIDE DEF e
    <3>5. b \in Images
      BY <3>1, <3>4, Buffers
    <3> HIDE DEF b
    <3>6. ProcessCredit(b) \in Images
      BY <3>1, <3>5, Buffers
    <3> QED
      BY <3>2, <3>5, <3>6
  <2> QED
    BY <2>2, <2>3
<1> QED
  BY <1>3, <1>4, Typed DEF Inv, PowerState, Idle, Bypassed

(* The last router sends nothing East, and no credit comes to it. *)
LEMMA EvalLast ==
  ASSUME Inv, Evaluate
  PROVE  left'[Last] = 0 /\ image'[Last] = image[Last] /\ xbar'[Last] = NoFlit
<1>1. Last \in Pos /\ Last \in Nat /\ power[Last] \in Idle /\ left[Last] = 0
  BY PosType DEF Inv, Rest, Idle
<1>2. ~Credited(Last)
  <2>1. credIn \subseteq Pos /\ Last + 1 \notin Pos
    BY <1>1 DEF Inv, TypeOK, Pos
  <2> QED
    BY <2>1 DEF Credited
<1>3. ~Takes(Last) /\ ~Sends(Last) /\ ~Returns(Last)
  BY <1>1 DEF Takes, MayTake, Sends, MaySend, Returns, MayReturn
<1>4. Rests(Last)
  BY <1>1, <1>3, EvalFacts
<1> QED
  BY <1>1, <1>2, <1>4 DEF Rests, Image1

LEMMA EvalTypes ==
  ASSUME Inv, Evaluate
  PROVE  TypeOK' /\ Rest'
<1>1. TypeOK /\ Rest
  BY DEF Inv
<1>2. /\ phase = "eval" /\ phase' = "write" /\ flitOut = [i \in Pos |-> NoFlit]
      /\ UNCHANGED <<power, down, tag, annOut, flit, cred, ann, ans, flitIn, credIn, annIn, ansIn>>
  BY EvalFacts
<1>3. /\ image' = [i \in Pos |-> image'[i]] /\ counter' = [i \in Pos |-> counter'[i]]
      /\ buf' = [i \in Pos |-> buf'[i]] /\ xbar' = [i \in Pos |-> xbar'[i]]
      /\ flitOut' = [i \in Pos |-> flitOut'[i]] /\ credOut' \subseteq Pos
  BY DEF Evaluate
<1>4. sent' \subseteq Pos /\ ansOut' \subseteq Pos
  BY <1>1 DEF Evaluate, TypeOK
<1>5. ASSUME NEW i \in Pos
      PROVE  image'[i] \in [occ : 0 .. 2 * Size, inUse : BOOLEAN, tail : BOOLEAN]
  <2>1. CASE i = Last
    BY <1>1, <2>1, EvalLast DEF TypeOK
  <2>2. CASE i # Last
    <3>1. i \in Link
      BY <2>2, FlyCreditsAssumption DEF Pos, Link
    <3>2. image'[i].occ = image[i].occ - Bit(Credited(i)) + Adds(i) /\ Adds(i) \in {0, 1}
      BY <3>1, EvalCounts
    <3>3. Credited(i) => image[i].occ > 0
      BY <1>2, <3>1, CreditMeets
    <3>4. image[i].occ \in Nat /\ Size \in Nat
      BY UseType
    <3>5. image'[i].occ <= Size
      BY <3>1, EvalSlots DEF SlotsOK
    <3>6. image'[i].occ \in 0 .. 2 * Size
      BY <3>2, <3>3, <3>4, <3>5 DEF Bit
    <3>7. image'[i] \in Images
      BY EvalImages
    <3> QED
      BY <3>6, <3>7 DEF Images
  <2> QED
    BY <2>1, <2>2
<1>6. ASSUME NEW i \in Pos
      PROVE  /\ counter'[i] \in 0 .. Size /\ left'[i] \in 0 .. PacketSize[i] /\ buf'[i] \in 0 .. Size
             /\ xbar'[i] \in Flit \cup {NoFlit} /\ flitOut'[i] \in Flit \cup {NoFlit}
  <2>1. /\ counter[i] \in Nat /\ counter[i] <= Size /\ left[i] \in Nat /\ left[i] <= PacketSize[i]
        /\ PacketSize[i] \in Nat \ {0} /\ buf[i] \in Nat /\ buf[i] <= Size /\ Size \in Nat
        /\ xbar[i] \in Flit \cup {NoFlit}
    BY <1>1, Typed, PosType
  <2>2. CASE power[i] \in Idle
    <3>1. /\ Takes(i) \/ Sends(i) \/ Returns(i) \/ Rests(i)
          /\ flitOut'[i] = xbar[i] /\ counter'[i] = counter[i]
          /\ buf'[i] = buf[i] + Bit(Queued(i)) - Bit(i \in credOut')
          /\ i \in credOut' => buf[i] + Bit(Queued(i)) > 0
      BY <2>2, EvalFacts
    <3>2. Queued(i) => buf[i] < Size
      BY <1>2, <2>2, FlyIn
    <3>3. buf'[i] \in 0 .. Size
      BY <2>1, <3>1, <3>2 DEF Bit
    <3>4. left'[i] \in 0 .. PacketSize[i]
      BY <2>1, <3>1 DEF Takes, Sends, Returns, Rests, MaySend
    <3>5. xbar'[i] \in Flit \cup {NoFlit}
      <4>1. Scheduled(i) \in Flit
        BY DEF Scheduled, Flit, AtHead
      <4> QED
        BY <3>1, <4>1 DEF Takes, Sends, Returns, Rests
    <3> QED
      BY <2>1, <3>1, <3>3, <3>4, <3>5
  <2>3. CASE power[i] \in Bypassed
    <3>1. /\ left'[i] = 0 /\ buf'[i] = 0 /\ xbar'[i] = NoFlit
          /\ flitOut'[i] = IF Queued(i) THEN flitIn[i - 1] ELSE NoFlit
          /\ counter'[i] = counter[i] - Bit(HandsOver(i))
      BY <2>3, EvalFacts
    <3>2. counter'[i] \in 0 .. Size
      BY <2>1, <3>1 DEF Bit, HandsOver
    <3>3. flitOut'[i] \in Flit \cup {NoFlit}
      BY <1>2, <3>1, FlyIn
    <3>4. 0 \in 0 .. Size /\ 0 \in 0 .. PacketSize[i]
      BY <2>1
    <3> QED
      BY <3>1, <3>2, <3>3, <3>4
  <2> QED
    BY <1>1, <2>2, <2>3, Typed DEF PowerState, Idle, Bypassed
<1>7. TypeOK'
  <2>1. image' \in [Pos -> [occ : 0 .. 2 * Size, inUse : BOOLEAN, tail : BOOLEAN]]
    BY <1>3, <1>5
  <2>2. counter' \in [Pos -> 0 .. Size] /\ buf' \in [Pos -> 0 .. Size]
    BY <1>3, <1>6
  <2>3. xbar' \in [Pos -> Flit \cup {NoFlit}] /\ flitOut' \in [Pos -> Flit \cup {NoFlit}]
    BY <1>3, <1>6
  <2> QED
    BY <1>1, <1>2, <1>3, <1>4, <1>6, <2>1, <2>2, <2>3 DEF TypeOK
<1>8. Rest'
  <2>1. buf'[0] = 0
    <3>1. 0 \in Pos /\ power[0] \in Idle /\ buf[0] = 0 /\ ~Queued(0)
      BY <1>1, PosType DEF Rest, Idle, Queued
    <3> QED
      BY <3>1, EvalFacts DEF Bit
  <2>2. \A i \in Pos : power'[i] \in Bypassed => left'[i] = 0 /\ xbar'[i] = NoFlit /\ buf'[i] = 0
    BY <1>2, EvalFacts
  <2> QED
    BY <1>1, <1>2, <2>1, <2>2, EvalLast DEF Rest
<1> QED
  BY <1>7, <1>8

LEMMA EvalStep ==
  ASSUME Inv, Evaluate
  PROVE  Inv'
<1>1. Handshake'
  <2>1. Handshake
    BY DEF Inv
  <2>2. Still => Handshake'
    BY EvalStill
  <2>3. ASSUME NEW c \in Middle, NEW s \in {"draining", "wakeup"}
        PROVE  /\ \A j \in 1 .. c, slot \in Slot : Asking(c, s, j, slot) => Handshake'
               /\ \A u \in 0 .. c - 1 :
                    /\ Waiting(c, s, u) => Handshake'
                    /\ \A j \in u .. c - 1, slot \in Slot : Answering(c, s, u, j, slot) => Handshake'
                    /\ Agreed(c, s, u) => Handshake'
                    /\ \A j \in u + 1 .. c, slot \in Slot : Telling(c, s, u, j, slot) => Handshake'
    BY EvalAsking, EvalWaiting, EvalAnswering, EvalAgreed, EvalTelling
  <2> QED
    BY <2>1, <2>2, <2>3 DEF Handshake
<1>2. \A i \in Link : SlotsOK(i)' /\ PacketsOK(i)'
  BY EvalSlots, EvalPackets
<1> QED
  BY <1>1, <1>2, EvalTypes DEF Inv, Link

-----------------------------------------------------------------------------
(* The invariant. *)

LEMMA InitInv == Init => Inv
<1> SUFFICES ASSUME Init PROVE Inv
  OBVIOUS
<1>1. /\ phase = "read" /\ power = [i \in Pos |-> "on"] /\ down = [i \in Pos |-> IF i = Last THEN "off" ELSE "on"]
      /\ sent = {} /\ tag = {} /\ image = [i \in Pos |-> [occ |-> 0, inUse |-> FALSE, tail |-> FALSE]]
      /\ counter = [i \in Pos |-> 0] /\ left = [i \in Pos |-> 0] /\ buf = [i \in Pos |-> 0]
      /\ xbar = [i \in Pos |-> NoFlit] /\ flitOut = xbar /\ flit = xbar /\ flitIn = xbar
      /\ annOut = [i \in Pos |-> NoAnn] /\ ann = annOut /\ annIn = annOut
      /\ credOut = {} /\ cred = {} /\ credIn = {}
      /\ ansOut = {} /\ ans = {} /\ ansIn = {}
  BY DEF Init
<1>2. TypeOK
  <2>1. \A i \in Pos : PacketSize[i] \in Nat
    BY FlyCreditsAssumption DEF Pos
  <2>2. Size \in Nat
    BY PosType
  <2>3. image \in [Pos -> [occ : 0 .. 2 * Size, inUse : BOOLEAN, tail : BOOLEAN]]
    BY <1>1, <2>2
  <2>4. counter \in [Pos -> 0 .. Size] /\ buf \in [Pos -> 0 .. Size]
    BY <1>1, <2>2
  <2>5. \A i \in Pos : left[i] \in 0 .. PacketSize[i]
    BY <1>1, <2>1
  <2>6. power \in [Pos -> PowerState] /\ down \in [Pos -> PowerState]
    BY <1>1 DEF PowerState
  <2> QED
    BY <1>1, <2>3, <2>4, <2>5, <2>6 DEF TypeOK
<1>3. Rest
  BY <1>1, PosType DEF Rest, Bypassed
<1>4. Handshake
  <2>1. Seen(0, 0, "on")
    BY <1>1 DEF Seen
  <2>2. \A m \in Pos : \A n : Cycles(m, n)
    BY <1>1 DEF Cycles, Bypassed
  <2>3. NoAnns /\ NoAnswer
    BY <1>1 DEF NoAnns, NoAnswer, OnlyAnn, OnlyAns
  <2> QED
    BY <1>1, <2>1, <2>2, <2>3 DEF Handshake, Still, Steady
<1>5. ASSUME NEW i \in Link PROVE SlotsOK(i) /\ PacketsOK(i)
  <2>1. i \in Pos /\ i + 1 \in Pos
    BY PosType
  <2>2. /\ image[i].occ = 0 /\ ~image[i].inUse /\ left[i] = 0 /\ Size \in Nat
        /\ power[i + 1] = "on" /\ power[i] = "on" /\ buf[i + 1] = 0
        /\ Flit1(i) = NoFlit /\ flit[i] = NoFlit /\ flitOut[i] = NoFlit /\ xbar[i] = NoFlit
    BY <1>1, <2>1, PosType DEF Flit1
  <2>3. Flits(i) = 0 /\ Creds(i + 1) = 0 /\ Use(i + 1) = 0 /\ ~Held(i)
    BY <1>1, <2>2 DEF Flits, Creds, Cred1, Use, Bit, Idle, Held
  <2>4. ~Live(i + 1, "on") /\ ~Live(i + 1, "off")
    BY <1>1, <2>1, AnnType DEF Live
  <2>5. SlotsOK(i)
    BY <2>2, <2>3, <2>4, PosType DEF SlotsOK
  <2>6. Alone(i)
    BY <2>2, FlitType DEF Alone
  <2>7. power[i + 1] \notin Bypassed
    BY <2>2 DEF Bypassed
  <2>8. PacketsOK(i)
    BY <2>2, <2>3, <2>6, <2>7 DEF PacketsOK
  <2> QED
    BY <2>5, <2>8
<1> QED
  BY <1>2, <1>3, <1>4, <1>5 DEF Inv

LEMMA NextInv ==
  ASSUME Size <= 13, Inv, [Next]_vars
  PROVE  Inv'
<1>1. CASE ReadInputs
  BY <1>1, ReadStep
<1>2. CASE PowerStateEvaluate
  BY <1>2, PowerStep
<1>3. CASE Evaluate
  BY <1>3, EvalStep
<1>4. CASE WriteOutputs
  BY <1>4, WriteStep
<1>5. CASE UNCHANGED vars
  <2>1. UNCHANGED <<phase, power, down, sent, tag, image, counter, left, buf, xbar, flitOut, credOut, annOut, ansOut,
                    flit, cred, ann, ans, flitIn, credIn, annIn, ansIn>>
    BY <1>5 DEF vars, state, credits, flits, outs, channels
  <2>2. TypeOK' /\ Rest'
    BY <2>1 DEF Inv, TypeOK, Rest
  <2>3. Handshake'
    <3>1. /\ \A c, s : Only(c, s)' = Only(c, s)
          /\ Steady' = Steady
          /\ \A u, c, s : Seen(u, c, s)' = Seen(u, c, s)
          /\ \A u, c : Beyond(u, c)' = Beyond(u, c)
      BY <2>1 DEF Only, Steady, Seen, Beyond
    <3>2. /\ \A j, slot, a : OnlyAnn(j, slot, a)' = OnlyAnn(j, slot, a)
          /\ \A j, slot : OnlyAns(j, slot)' = OnlyAns(j, slot)
          /\ NoAnns' = NoAnns /\ NoAnswer' = NoAnswer
      BY <2>1 DEF NoAnns, NoAnswer, OnlyAnn, OnlyAns
    <3>3. \A m, n : Cycles(m, n)' = Cycles(m, n)
      BY <2>1 DEF Cycles
    <3>4. \A i : (Hush(i)' <=> Hush(i)) /\ (Open(i)' <=> Open(i))
      BY <2>1 DEF Hush, Flits, Flit1, Open, AtHead
    <3>5. Still => Still'
      BY <2>1, <3>1, <3>2, <3>3 DEF Still
    <3>6. ASSUME NEW c \in Middle, NEW s \in {"draining", "wakeup"}
          PROVE  /\ \A j \in 1 .. c, slot \in Slot : Asking(c, s, j, slot) => Asking(c, s, j, slot)'
                 /\ \A u \in 0 .. c - 1 :
                      /\ Waiting(c, s, u) => Waiting(c, s, u)'
                      /\ \A j \in u .. c - 1, slot \in Slot : Answering(c, s, u, j, slot) => Answering(c, s, u, j, slot)'
                      /\ Agreed(c, s, u) => Agreed(c, s, u)'
                      /\ \A j \in u + 1 .. c, slot \in Slot : Telling(c, s, u, j, slot) => Telling(c, s, u, j, slot)'
      <4>1. ASSUME NEW j \in 1 .. c, NEW slot \in Slot, Asking(c, s, j, slot) PROVE Asking(c, s, j, slot)'
        BY <2>1, <3>1, <3>2, <3>3, <4>1 DEF Asking
      <4>2. ASSUME NEW u \in 0 .. c - 1, Waiting(c, s, u) PROVE Waiting(c, s, u)'
        BY <2>1, <3>1, <3>2, <3>3, <4>2 DEF Waiting
      <4>3. ASSUME NEW u \in 0 .. c - 1, NEW j \in u .. c - 1, NEW slot \in Slot, Answering(c, s, u, j, slot)
            PROVE  Answering(c, s, u, j, slot)'
        BY <2>1, <3>1, <3>2, <3>3, <3>4, <4>3 DEF Answering
      <4>4. ASSUME NEW u \in 0 .. c - 1, Agreed(c, s, u) PROVE Agreed(c, s, u)'
        BY <2>1, <3>1, <3>2, <3>3, <3>4, <4>4 DEF Agreed
      <4>5. ASSUME NEW u \in 0 .. c - 1, NEW j \in u + 1 .. c, NEW slot \in Slot, Telling(c, s, u, j, slot)
            PROVE  Telling(c, s, u, j, slot)'
        <5>1. OnlyAnn(j, slot, [src |-> power[c], new |-> "on"])'
          BY <2>1, <4>5 DEF Telling, OnlyAnn
        <5> QED
          BY <2>1, <3>1, <3>2, <3>3, <3>4, <4>5, <5>1 DEF Telling
      <4> QED
        BY <4>1, <4>2, <4>3, <4>4, <4>5
    <3>7. Handshake
      BY DEF Inv
    <3> QED
      BY <3>5, <3>6, <3>7 DEF Handshake
  <2>4. \A i \in Link : SlotsOK(i)' /\ PacketsOK(i)'
    BY <2>1 DEF Inv, SlotsOK, PacketsOK, Live, Behind, Use, Flits, Flit1, Creds, Cred1, Open, Open1, Open2, Open3,
                Fits, OpenAfter, InOrder, Alone, Held, Hush, AtHead
  <2> QED
    BY <2>2, <2>3, <2>4 DEF Inv, Link
<1> QED
  BY <1>1, <1>2, <1>3, <1>4, <1>5 DEF Next

(* In every reachable state a change of state is at one of the stages of   *)
(* the handshake, the slots of every link are accounted for, and packets   *)
(* follow each other, whatever is on or off and however much is under way. *)
THEOREM FlyCreditsInvariant ==
  ASSUME Size <= 13
  PROVE  Spec => []Inv
<1>1. Init => Inv
  BY InitInv
<1>2. Inv /\ [Next]_vars => Inv'
  BY NextInv
<1> QED
  BY <1>1, <1>2, PTL DEF Spec

(* The errors of Buffer and BufferState never occur: no credit for a free  *)
(* slot or for a VC that nobody holds, no flit to a full buffer or into a  *)
(* VC in use, and no router owes more slots than there are.                *)
THEOREM NoErrorEver ==
  ASSUME Size <= 13
  PROVE  Spec => []NoError
<1>1. ASSUME Inv PROVE NoError
  <2>1. TypeOK /\ Rest
    BY <1>1 DEF Inv
  <2>2. ASSUME phase = "eval", NEW i \in Pos, Credited(i)
        PROVE  image[i].occ > 0 /\ (WaitForTail => image[i].inUse)
    <3>1. i \in Link
      <4>1. i + 1 \in Pos /\ i \in Nat
        BY <2>1, <2>2, PosType DEF TypeOK, Credited
      <4> QED
        BY <4>1, PosType DEF Pos, Link
    <3>2. image[i].occ > 0
      BY <1>1, <2>2, <3>1, CreditMeets
    <3> QED
      BY <1>1, <3>1, <3>2 DEF Inv, PacketsOK
  <2>3. ASSUME phase = "eval", NEW i \in Pos, Queued(i), power[i] \in Idle PROVE buf[i] < Size
    BY <1>1, <2>3, FlyIn
  <2>4. ASSUME phase = "eval", NEW i \in Pos, Queued(i), power[i] \in Bypassed
        PROVE  image[i].occ < Size /\ (flitIn[i - 1].head => ~image[i].inUse)
    <3>1. image[i].occ + counter[i] < Size /\ (flitIn[i - 1].head => ~image[i].inUse)
      BY <1>1, <2>4, FlyIn
    <3> QED
      BY <1>1, <3>1, UseType
  <2>5. ASSUME NEW i \in Middle PROVE FreeSlots(i) >= 0
    <3>1. image[i].occ <= Size /\ i \in Pos
      BY <1>1, PosType DEF Inv, SlotsOK
    <3> QED
      BY <1>1, <3>1, UseType DEF FreeSlots
  <2> QED
    BY <2>1, <2>2, <2>3, <2>4, <2>5 DEF NoError
<1>2. Spec => []Inv
  BY FlyCreditsInvariant
<1> QED
  BY <1>1, <1>2, PTL

(* Once everything has arrived, an image counts what the next router       *)
(* answers for, and a router that is off answers for its own image.        *)
LEMMA SettledLink ==
  ASSUME Inv, Settled, NEW i \in Link
  PROVE  /\ power[i + 1] \in Idle => image[i].occ = buf[i + 1]
         /\ power[i + 1] \in Bypassed => i + 1 \in Link /\ image[i].occ = image[i + 1].occ
         /\ power[i + 1] \in Idle \cup Bypassed
<1>1. i \in Pos /\ i + 1 \in Pos
  BY PosType
<1>2. /\ phase = "read" /\ credIn = {} /\ cred = {} /\ credOut = {} /\ flitOut[i] = NoFlit
      /\ xbar[i] = NoFlit /\ flit[i] = NoFlit /\ flitIn[i] = NoFlit
      /\ annOut[i + 1] = NoAnn /\ ann[i + 1] = NoAnn /\ annIn[i + 1] = NoAnn
      /\ counter[i + 1] = 0
  BY <1>1 DEF Settled, Inv, Rest
<1>3. Flits(i) = 0 /\ Creds(i + 1) = 0
  BY <1>2 DEF Flits, Flit1, Creds, Cred1, Bit
<1>4. ~Live(i + 1, "on") /\ ~Live(i + 1, "off")
  BY <1>2, AnnType DEF Live
<1>5. Use(i + 1) \in Nat /\ image[i].occ \in Nat /\ image[i + 1].occ \in Nat
  BY <1>1, UseType
<1>6. image[i].occ = Use(i + 1)
  <2>1. SlotsOK(i)
    BY DEF Inv
  <2>2. image[i].occ + 0 = Use(i + 1) + Flits(i) + Creds(i + 1)
    BY <1>4, <2>1 DEF SlotsOK
  <2> QED
    BY <1>3, <1>5, <2>2
<1>7. power[i + 1] \in Bypassed => i + 1 \in Link
  <2>1. power[i + 1] \in Bypassed => i + 1 # Last
    BY DEF Inv, Rest, Bypassed
  <2> QED
    BY <1>1, <2>1, FlyCreditsAssumption DEF Pos, Link
<1>8. power[i + 1] \in PowerState
  BY <1>1, Typed DEF Inv
<1> QED
  BY <1>2, <1>5, <1>6, <1>7, <1>8 DEF Use, PowerState, Idle, Bypassed

LEMMA Least ==
  ASSUME NEW S \in SUBSET Nat, S # {}
  PROVE  \E x \in S : \A y \in S : x <= y
<1> DEFINE R == OpToRel(<, Nat)
<1>1. IsWellFoundedOn(R, Nat)
  BY NatLessThanWellFounded
<1>2. \A x \in Nat, y \in Nat : <<y, x>> \in R <=> y < x
  BY DEF OpToRel
<1> HIDE DEF R
<1>3. PICK x \in S : \A y \in S : ~(<<y, x>> \in R)
  BY <1>1, WFMin
<1>4. \A y \in S : ~(y < x)
  BY <1>2, <1>3
<1> QED
  BY <1>4

(* Next1 is the nearest router East that is not off. *)
LEMMA NextOn ==
  ASSUME Inv, NEW i \in Link
  PROVE  /\ Next1(i) \in i + 1 .. Last /\ power[Next1(i)] \in Idle
         /\ \A m \in i + 1 .. Next1(i) - 1 : power[m] \in Bypassed
<1> DEFINE S == {d \in i + 1 .. Last : power[d] \in Idle}
<1>1. i \in Nat /\ Last \in Nat /\ i < Last
  BY PosType DEF Link
<1>2. Last \in S /\ S \in SUBSET Nat
  BY <1>1 DEF Inv, Rest, Idle
<1>3. PICK d \in S : \A y \in S : d <= y
  <2> HIDE DEF S
  <2> QED
    BY <1>2, Least
<1>4. d \in i + 1 .. Last /\ power[d] \in Idle
  OBVIOUS
<1>5. ASSUME NEW m \in i + 1 .. d - 1 PROVE power[m] \in Bypassed
  <2>1. m \in i + 1 .. Last /\ m < d /\ m \in Pos
    BY <1>1, <1>4 DEF Pos
  <2>2. m \notin S
    BY <1>1, <1>3, <1>4, <2>1
  <2>3. power[m] \in PowerState
    BY <2>1, Typed DEF Inv
  <2> QED
    BY <2>1, <2>2, <2>3 DEF PowerState, Idle, Bypassed
<1> HIDE DEF S
<1> QED
  BY <1>4, <1>5 DEF Next1

(* No slot is lost or invented: once everything has arrived every image is *)
(* what is in the buffer it stands for, however often routers in between   *)
(* switched.                                                               *)
THEOREM ImagesAreExact ==
  ASSUME Size <= 13
  PROVE  Spec => []ImageIsExact
<1>1. ASSUME Inv, Settled, NEW i \in Link PROVE image[i].occ = buf[Next1(i)]
  <2> DEFINE n == Next1(i)
             S == {m \in i .. n - 1 : image[m].occ # buf[n]}
             Far(m) == n - m
             T == {n - m : m \in S}
  <2>1. /\ i \in Nat /\ Last \in Nat /\ n \in i + 1 .. Last /\ power[n] \in Idle
        /\ \A m \in i + 1 .. n - 1 : power[m] \in Bypassed
    BY <1>1, NextOn, PosType
  <2> HIDE DEF n
  <2>2. ASSUME S # {} PROVE FALSE
    <3>1. T \in SUBSET Nat /\ T # {}
      BY <2>1, <2>2
    <3>2. PICK t \in T : \A y \in T : t <= y
      <4> HIDE DEF T
      <4> QED
        BY <3>1, Least
    <3>3. PICK m \in S : t = n - m
      OBVIOUS
    <3>4. m \in Nat /\ m \in i .. n - 1 /\ m \in Link /\ n \in Nat /\ n <= Last
      BY <2>1 DEF Link
    <3>5. /\ power[m + 1] \in Idle => image[m].occ = buf[m + 1]
          /\ power[m + 1] \in Bypassed => image[m].occ = image[m + 1].occ
      BY <1>1, <3>4, SettledLink
    <3>6. CASE m + 1 = n
      BY <2>1, <3>5, <3>6
    <3>7. CASE m + 1 # n
      <4>1. m + 1 \in i + 1 .. n - 1 /\ m + 1 \in i .. n - 1
        BY <2>1, <3>4, <3>7
      <4>2. image[m + 1].occ # buf[n]
        BY <2>1, <3>5, <4>1
      <4>3. m + 1 \in S
        BY <4>1, <4>2
      <4>4. n - (m + 1) \in T
        BY <4>3
      <4>5. t <= n - (m + 1)
        BY <3>2, <4>4
      <4> QED
        BY <3>3, <3>4, <4>5
    <3> QED
      BY <3>6, <3>7
  <2>3. i \in i .. n - 1
    BY <2>1
  <2> QED
    BY <2>2, <2>3 DEF n
<1>2. Inv => ImageIsExact
  BY <1>1 DEF ImageIsExact, Link
<1>3. Spec => []Inv
  BY FlyCreditsInvariant
<1> QED
  BY <1>2, <1>3, PTL

(* Where a VC waits for the credit of its tail, it comes back: to a router *)
(* whose next one is on again no VC stays held that has all its slots.     *)
THEOREM VcReturns ==
  ASSUME Size <= 13, WaitForTail
  PROVE  Spec => []VcComesBack
<1>1. ASSUME Inv PROVE VcComesBack
  <2>1. ASSUME NEW i \in Link, power[i] \in Idle, left[i] = 0, image[i].occ = 0 PROVE ~image[i].inUse
    <3>1. PacketsOK(i)
      BY <1>1 DEF Inv
    <3> QED
      BY <2>1, <3>1 DEF PacketsOK, Held
  <2> QED
    BY <2>1 DEF VcComesBack, Link
<1>2. Spec => []Inv
  BY FlyCreditsInvariant
<1> QED
  BY <1>1, <1>2, PTL
=============================================================================
