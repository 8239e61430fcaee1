# Fly-over power-gating: TLA+ models, model checking and proofs

This directory is the verification project of the fly-over (FLOV) network-on-chip
simulator, the BookSim fork under `src/booksim2`. Fly-over lets routers whose core is
parked switch off; packets then *fly over* a router that is off, straight from an input to
the opposite output, and the routers around it learn by handshakes who is on. The models
are about what makes that distributed protocol hard: it runs on every router at once,
with knowledge that is always a few cycles old, over links that still carry packets.

The fork also holds the schemes fly-over is compared with, router parking and node-router
decoupling (NoRD). Theirs are other difficulties, which are modelled as well: choices and
tables made before the simulation that have to fit together, and escape routes on which no
packets may wait in a circle.

Paths below are relative to `src/booksim2/src` unless they start with `src/`.

1. [The system](#1-the-system)
2. [Modules](#2-modules-and-how-they-correspond-to-the-code)
3. [Runs](#3-runs)
4. [Fairness](#4-fairness)
5. [Proofs](#5-proofs)
6. [Findings](#6-findings)
7. [What is not modelled](#7-what-is-not-modelled)
8. [Plan](#8-plan)

## 1. The system

One simulated cycle is `FLOVTrafficManager::_Step`: for every node (core) it calls
`WakeUp()` on the node's router if the node is injecting or ejecting packets in this cycle and
`IdleDetected()` if it is idle; then it calls `ReadInputs` on every router, then
`PowerStateEvaluate` on every router, then `Evaluate`, then `WriteOutputs`. The routers
share nothing; they exchange flits, credits and handshakes over channels, and a value
written in one cycle is read two cycles later.

| part | state it keeps | operations | interacts by | what makes it correct |
|---|---|---|---|---|
| Mesh and channels (`networks/kncube.cpp`, `channel.hpp`) | a wait queue and an output per channel | `Send`, `ReadInputs`, `WriteOutputs`, `Receive` | the three channels between neighbours | in order, nothing lost, two cycles |
| `RFLOVRouter`, restricted fly-over | power state, what it believes of its neighbours, drain tags, answers given, handshake ids, drain timer | `_HandshakeEvaluate`, `PowerStateEvaluate`, `_HandshakeResponse`, `_FlovStep` | announcements (`new_state`) and drain-done answers | never two neighbours off; off only by consent of all; no flit cut off; drains end; neighbours do not collide for ever |
| `FLOVRouter`, adaptive fly-over | the same, and a policy (No-, R-, G-FLOV), downstream states and logical neighbours, off and wake-up timers | the same for each policy, relaying while off or waking up, `AggressFLOVPolicy`, `RegressFLOVPolicy` | handshakes, relayed by routers that are off | no assertion fails; knowledge is stale only while a handshake travels; pipelines switch in silence; a tighter policy takes effect |
| `FLOVTrafficManager` | packets of the nodes, idle samples, votes, epoch counter | `_Step`, the votes, `WakeUp` and `IdleDetected` calls | method calls on the routers | votes are counted once and applied once per epoch; nodes get their router |
| Credits (`buffer_state.cpp`; `_FlovStep` and `_SendCredits` of `FLOVRouter`) | image of the downstream buffer, `_credit_counter` | `SendingFlit`, `ProcessCredit`, `ClearCredits`, `FullCredits`, relay and hand-over | credit channels | no slot lost or invented, no buffer overflows, the VC comes back |
| Fly-over routing (`routefunc.cpp`) | fields of the head flit | `flov_mesh`, `opt_rflov_mesh`, `opt_flov_mesh`, `adaptive_flov_mesh` | reads `_neighbor_states`, `_logical_neighbors` of the router | stays in the mesh, escape VC free of deadlock, every packet arrives |
| `GFLOVRouter` | as `FLOVRouter` without policies | as above | as above | as above |
| Parked cores and routers (`network.cpp`, `powergate_auto_config`) | which cores and routers are parked | the draw of the cores, conservative and aggressive parking of routers | configuration, before anything runs | the routers that are on form one network, active cores keep theirs; the choice ends |
| Routing tables (`routetbl.cpp`, `kncube.cpp`) | adjacency, the search under way, a regular and an escape table per router | `BuildRoute`, `BuildEscRoute`, `SetTables` | tables read by `rp_mesh` | shortest paths over routers that are on; the tables of different routers agree; escape routes are deadlock-free |
| Router parking (`rp_router.cpp`, `rptrafficmanager.cpp`) | head flits, VC classes, time since routing | routing, allocation, timeout to the escape VC | tables; channels | no flit meets a parked router; all packets arrive |
| NoRD (`nord_router.cpp`, `nordtrafficmanager.cpp`) | bypass ring, misroute counts, power states, requests seen by the network interface | `nord_mesh`, bypass through the interface of a router that is off, wake-up | ring channels | the escape ring passes every router and is free of circular waits |
| BookSim core (router pipeline, allocators, traffic, statistics), power model, gem5 port | | | | unmodified or derived |

The behaviours that are hard, and that no test of the repository reaches (it has none for
the protocols), are the hazards of PROJECT.json. In short:

* **Interleaving.** Neighbours start to drain in the same cycle; a router wakes up while
  another one, beyond routers that are off, drains or wakes up; the policy of a router
  changes in the middle of any of this.
* **Staleness.** Every decision is made on announcements that are two cycles old, or two
  per router flown over; answers to abandoned drains arrive during later ones and only the
  handshake id tells them apart; a packet keeps a route computed before its neighbours
  switched.
* **Atomicity.** The pipeline is switched while flits and credits are on the channels.
* **Timeouts.** A drain is abandoned after `drain_threshold` cycles, the last answer may
  be on its way.
* **Liveness.** Routers wait for answers of routers that themselves go off or wake up.

## 2. Modules and how they correspond to the code

```
Mesh ─┬─ Rflov ─────── MCRflov           RflovProofs
      │    └ implements PowerGating
      ├─ Flov ──────── MCFlov            FlovProofs
      ├─ Voting ────── MCVoting          VotingProofs
      │    └ implements PolicyTurns
      ├─ FlovRouting ─ MCFlovRouting     FlovRoutingProofs
      ├─ Parking ─ RouteTables ─ RpMesh ─ MCRpMesh
      │     ParkingProofs ── RpMeshProofs
      └─ NordRing ─ NordRouting ─ MCNordRouting       NordProofs
FlyCredits ── MCFlyCredits               FlyCreditsProofs
```

**Mesh** is the K x K mesh: routers are `<<row, col>>` for the id `row * gK + col`, ports
0 to 3 are East, West, South, North, channels wrap around (as `KNCube` builds them) and
the ports at the edge are *boundary* ports that the routers do not use.

**Rflov** models `RFLOVRouter`. One action per phase of the cycle, each on all routers at
once, because the traffic manager finishes a phase on every router before the next:

| action | code |
|---|---|
| `ReadInputs` | `NodeCycle`: the traffic manager's `WakeUp` and `IdleDetected` calls, of which every router gets one per cycle; then `_ReceiveHandshakes`, `_HandshakeEvaluate`; arriving flits |
| `PowerStateEvaluate` | the power state machine, its announcements and ids |
| `Evaluate` | the pipeline and `_HandshakeResponse`, or `_FlovStep` |
| `WriteOutputs` | `_SendHandshakes`, `_SendFlits`, and the channels |

The handshake queues are records per router and port: `out` (queued), `wire` (in the
channel), `avail` (at its output). Ids count from 0 (the code from -1). The
virtual-channel pipeline is abstracted to what the protocol sees of it: a link is *active*
while a VC is routed to it or a flit is in the crossbar or the output buffer, a router is
*occupied* while a VC of it is not idle; packets come and go nondeterministically wherever
the code would let them. The wake-up state is unreachable in this router class, because
`_router_state` is set once by the network and nothing else lets a router leave
`power_off`; so it is absent from `PowerState`, and the timer only counts drains. It
advances in `PowerStateEvaluate` and, if the node is idle, in `IdleDetected`: twice per cycle. The check of `_HandshakeResponse` that a
head flit does not make a U-turn is part of "active".

**PowerGating** is what Rflov promises, without handshakes: a router asks its neighbours
for consent (`Asks`), they consent when they have stopped sending to it (`IsAnswered`), it
gives up (`Withdraws`) or goes off with the consent of all, while they stay on
(`GoesOff`); all routers may move in one step. The refinement mapping takes a neighbour to
consent (`Consented`) from the moment it queues its answer until the tag is up: an answer
counts wherever it is on the channel, if it carries the id of the current drain.

**Flov** models `FLOVRouter` the same way, with the three policies. `Relays` is the second
pass of `_HandshakeEvaluate` (a router that is off relays to the opposite port; one that
wakes up relays only what is needed for credits, and answers other waking routers);
`PolicyTurn` is the end of an epoch in the traffic manager, with any vote. One timer per
router stands for `_drain_timer`, `_off_timer` and `_wakeup_timer`, of which one counts in
each power state. The first two also count the idle cycles of the node (`IdleDetected`;
`_off_timer` counts nothing else until a wake-up is requested), so that a wake-up usually finds
`bet_threshold` long passed. Off and wake-up timers stop at their thresholds, from where the
code no longer distinguishes values. The assertions of `_HandshakeEvaluate`, which are compiled in and stop the
simulation, are `HandshakeAsserts`.

**Voting** is the beginning of `FLOVTrafficManager::_Step`: in every cycle `Wait`
(counting an epoch), `CastVotes` (cycle t of a round: the nodes of row t and column t vote
and reset their samples) or `ApplyVotes` (the cycle after: `AggressFLOVPolicy`,
`RegressFLOVPolicy`), and `Retire`, the arrival of packets. Latencies are abstracted to
the side of the watermarks their average is on. The ballots of a round and the nodes that
still have to be heard are history variables. **PolicyTurns** is the abstract specification
of it, the environment the routers have: policies move by one step, and stand still for
`Epoch + K - 1` cycles in between; `PolicyTurn` of Flov is the same turn at any distance of
at least `MinEpoch`.

**FlyCredits** models flow control along a row of `FLOVRouter`s: one virtual channel, the
private buffer policy, `credit_delay` 0 (the run files' values). Credits, flits,
announcements and answers travel in channels as above. A router that goes off hands its
free slots over one per cycle (`_credit_counter`), and relays credits from then on. Of the
power-gating protocol it keeps announcements and answers; one router changes at a time,
after the announcements of the last change have arrived, drains are not abandoned, and
the routers at the ends stay on: the protocol itself is the matter of Flov.

**FlovRouting** models the four routing functions as operators on the state of a packet
(`at`, `dest`, input port, escape VC), and the packet's way through a mesh whose routers
switch: `RouteUpdate`, `BackToRoute` (allocation gives up, or finds the neighbour not on),
`Fly` (over any routers that are off to the next one that is on), and routers that start
and finish draining or waking up. A route may be arbitrarily old when it is used. The
configured function is the variable `function`, chosen once in `Init`. Of the routers'
protocol it assumes what Rflov and Flov show: a router is off only if it holds no packet
and none is on its way to it. All non-escape VCs are one class, the escape class is
the lowest VC, the core of a destination is not parked, and misroute hops are
over-approximated (each hop may count or not, one that certainly leads away counts).

**Parking** is the constructor of `Network`: one action per turn of its loops. `ParkCore`
draws a core; `CoresParked` ends the draw, and under aggressive parking (`rpa`) finds the
components that are cut off from the fabric manager; `ParkRouter` is a turn of conservative
parking (`rpc`), `ConnectComponent` one of aggressive parking. That the edge router is the best of eight
random ones is abstracted to any edge router.

**RouteTables** models `RouteTbl` on what Parking left on. `Visit` is a turn of the loop
that `_CalDist` and `_CalUpDownDist` share (Dijkstra's algorithm without a queue),
`FirstHops` follows the predecessors back, `Tree` is what the breadth-first search from the
fabric manager leaves; `Explore` is a turn of its loop, on the queue, `_visited` and
`_updown_adj_mtx`. Both searches that are not actions are `Turns` of a loop, a recursive
function of the number of turns.

**RpMesh** composes both with the way of one head flit: `Route` (`rp_mesh`), `VCAlloc` and
`Traverse` for the regular and the escape class, and `Timeout`, 300 cycles after routing,
which also takes back a VC already granted. What other packets do is left open: a regular
VC may never be granted.

**NordRing** is the ring that `NoRDRouter`'s constructor lays out (`_ring_out_port`,
`_ring_in_port`, `_ring_id`), **NordRouting** the way of a head flit under NoRD with any
set of routers off: `Route` in a router that is on takes any port and VC class that
`nord_mesh` offers, `Bypass` passes a flit through the interface of a router that is off.
The misroute counter is kept up to the threshold. Power states stand still.

The MC modules only name the small sets the configurations use. A `Bug_...` operator
before a definition is a plausible mistake in the code it models; putting it in place of
the definition must break the property it is listed with in PROJECT.json.

## 3. Runs

`tlc -config X.cfg M` in this directory; every passing run finishes within five minutes on two
workers. Deadlock is checked everywhere except in the routing runs, where the behaviour
ends with the packet's delivery.

| run | configuration | checks |
|---|---|---|
| `rflov_protocol` | 3x3, an L of three gateable routers, the corner one with a busy node, two links with packets | `TypeOK`, `NoAdjacentOff`, `OffIsExpected`, `ViewIsCurrent`, `NoFlitCutOff`, `OffByConsent`, `ImplementsPowerGating`, `Settles` |
| `flov_pair` | 3x3, two gateable neighbours that may drain three times, packets from the East, two policy turns | `TypeOK`, `OffByConsent`, `SwitchesInSilence`, `NoFlovComesOn`, `RflovSeparates` |
| `flov_row` | the whole top row gateable, a busy node at the corner, three policy turns, no packets | `HandshakesExpected`, `DownIsCurrent`, `LogicalIsCurrent` |
| `flov_bypass` | one gateable router, packets across it both ways, two policy turns | `BypassStartsEmpty` |
| `flov_hid` | two gateable neighbours, packets from the West | violates `HandshakesExpected` |
| `flov_stuck` | the top row gateable | violates `NoFlovComesOn` |
| `credits` | a row of four, two slots, two packets per router (of two flits from the first router, of one from the others), three switches | `NoError`, `ImageIsExact`, `VcComesBack` |
| `credits_no_tail` | a row of three, `wait_for_tail_credit` 0 | violates `VcComesBack` |
| `routing` | 3x3, all four functions, any routers above the bottom row off, one switch | `StaysInMesh`, `EscapeAcyclic`, `Delivered` |
| `voting` | 3x3, two active cores in a column, epochs of four cycles, any latencies | `TypeOK`, `VotesAreTallied`, `EveryNodeIsHeard`, `MovesByMajority`, `ImplementsPolicyTurns`, `RoundsEnd` |
| `parking` | 3x3, 0 to 6 parked cores, every draw, both policies, every pair of nodes | `Connected`, `VisitedIsFinal`, `FlitsMeetRouters`, `NoClimbAfterDescent`, `ChoiceEnds`, `Closer`, `Delivered` |
| `nord` | 4x4, any 2 and any 9 to 12 of the twelve routers above the bottom row off, every pair of active nodes | `TypeOK`, `OffByRing`, `EscapeInOrder`, `Delivered` |

**What the properties say.** `NoAdjacentOff`: R-FLOV never has two neighbours off.
`OffByConsent`: at the moment a router goes off, every neighbour (Flov: every downstream
router) is on, knows of the drain, has answered *this* drain and has nothing under way to
it; with `Bug_Consents`, the id check dropped, an answer to an abandoned drain breaks it.
`OffIsExpected` and `HandshakesExpected` are the assertions in the code, and so is
`BypassStartsEmpty`: `_off_timer` is 1 at most in the first cycle off, because the idle cycles
of the node are counted, and then no flit comes in; with `Bug_IdleDetected` it would be 1 in the first
cycle of a requested wake-up, under a flit that flies over.
`ViewIsCurrent`, `DownIsCurrent`, `LogicalIsCurrent`: a router is wrong about another one
only while an announcement is on its way. `NoFlitCutOff`, `SwitchesInSilence`: no flit
reaches a router whose pipeline was switched under it. `Settles`: draining neighbours do
not collide for ever. `NoFlovComesOn`, `RflovSeparates`: a tighter policy takes effect in
the end. `ImageIsExact`: when nothing travels, the image of every router equals the buffer
it stands for. `EscapeAcyclic`: packets in escape buffers wait only for buffers later in a
strict order. `Delivered`: every packet arrives.

`VotesAreTallied`: the votes of a router are the sum of the ballots that concern it, each
counted once (a node in row t and column t votes only once for itself), none left from an
earlier round. `EveryNodeIsHeard`: who had samples when a round began has voted and reset
them when it ends. `RoundsEnd`: policies keep being decided. `Connected`: `RouteTbl`
follows predecessors without a check, so that a part that is cut off would make it follow
an index of -1. `VisitedIsFinal`: the invariant of the search, against the balls of the
graph. `Closer`: every regular hop brings a packet nearer, although the tables of different
routers were searched apart. `NoClimbAfterDescent`: the escape routes of all routers go up
and then down one tree. `EscapeInOrder`: a packet on the escape ring stays there and takes
its buffers in one order, which crosses the dateline once, although the interface of a router
that is off does not look at the dateline. `NoError` contains the types and bounds of
FlyCredits, among them that an image never counts more than two buffers.

**Bounds, and why they are enough.**

* *Mesh size.* K = 3 has corners, edges and routers with four neighbours, the always-on
  bottom row, and a stretch of two routers that are off between two ends that are not. Two and
  three gateable routers are what the conflicts are between: pairs of neighbours, and
  pairs with a router that is off in between. What holds for every K is proved (section 5).
* *`MaxHid`, `MaxDisturbed`* (Rflov) end the retries: a router starts no drain once an id
  reaches `MaxHid` = 8, four drains, twice what a stale answer needs. `Settles` speaks of
  runs without packets, since abandoned drains would use up the bound.
* *`MaxDrains`, `MaxTurns`, `MinEpoch`* (Flov) bound drains, policy turns and the cycles
  between two turns. Two turns take a router from G-FLOV to No-FLOV, a third back. In the
  code an epoch is 1000 cycles; 4 is shorter than a handshake, so that turns also meet
  handshakes under way.
* *Thresholds* are small stand-ins: `DrainThreshold` 10 or 18 (code 100), `BetThreshold` and
  `WakeupThreshold` 2 (code 10). The drain timer advances by two per cycle while the node is
  idle, so a drain may last 5 or 9 cycles. One whose neighbours are on takes 4 cycles and one
  through a router that is off 8: with 10 relayed drains time out with the answer under
  way, and with 18 they succeed.
* *Voting.* Two nodes of one column, one of them on the diagonal, where row and column
  have their turn together; their row-mates and column-mates without samples. The epoch
  of 4 is the least that is longer than K, without which there are no turns; the proofs take any epoch longer than K.
* *Parking.* K = 3 leaves six cores to draw, and all numbers of them; the fabric manager is
  the default of the configuration, in the top row. Aggressive parking then finds up to
  two components to connect. Connectivity, the searches and the tables are proved for
  every K and fabric manager.
* *NoRD.* 4 is the least mesh whose ring has a pair of columns in its middle. Nine and more
  routers off make packets misroute and bypass for long; two off are the other end. The
  misroute threshold of 4 (gK, the default of the code) is crossed on the way.
  `Delivered` is only as strong as these sets; the other properties are proved for all.
* *Credits.* Two slots; a packet then fills a buffer, and two packets compete for it.
  Switches are 3: both inner routers off and one of them on again.
  The run cannot show what becomes of slots not handed over when the counter is zeroed: that
  takes 14 and more (section 6), and that 13 are safe is the theorem `ImagesAreExact`.
* *Routing.* All sources, destinations and sets of routers that are off; `MaxMisroute` 2;
  one switch at any moment. For `flov_mesh` and
  `adaptive_flov_mesh` the proof covers any number. For the two optimised functions the
  escape order is claimed only for at most one switch.

**`HandshakesExpected` and `SwitchesInSilence`** hold in `flov_row` and `flov_pair`, whose
bounds leave out the conflict of ids of finding 1. Until the first wake-up they are
proved for every mesh (section 5), after one they are not claimed beyond these bounds. Likewise `NoFlovComesOn` and `RflovSeparates` hold for a pair, and the row of three
has finding 2. `BypassStartsEmpty` is claimed for nodes that are idle while their router is off: the run
has no busy nodes. So it is wherever cores and routers are parked together; `off_routers` may
also name the router of an active core, whose busy cycles are not counted.

## 4. Fairness

The phases are weakly fair: the traffic manager executes them in a loop for as long as the
simulation lasts. Nothing else in the protocol modules is: no policy turn, no wake-up
signal and no packet has to happen; liveness that needs packets to end says so in its
premise (`<>[](active = {})`). In FlovRouting, `RouteUpdate` is weakly fair (a pipeline
stage), so is `BackToRoute` while the way is closed (the code re-routes when the neighbour
is not on, or after 300 cycles); `Fly` is strongly fair, because the VC and switch
allocators are round-robin, and the packets in front leave for the same reason; `EndChange`
is weakly fair (drains are bounded, wake-ups end in the pair). A drain may still be
abandoned or succeed at will. `Spec` of FlovRouting includes this fairness, the safety
theorems do not need it.

In Voting the steps of the traffic manager are weakly fair, arrivals are not. In RpMesh the
constructors (`Configure`) and the pipeline (`Route`, `Timeout`, `Eject`) are weakly fair;
of the allocators only those of the escape class are, since regular VCs may be waiting in a
circle; that the escape class comes is justified by `NoClimbAfterDescent` and round-robin
arbiters. That the random draws of cores end is fairness of `Configure`: a draw that
repeats for ever has probability zero. In NordRouting every step is fair (`WF_vars(Next)`),
whichever output the allocators choose.

## 5. Proofs

`tlapm M.tla`, with M one of RflovProofs, FlovProofs, FlyCreditsProofs, FlovRoutingProofs, VotingProofs,
ParkingProofs, RpMeshProofs and NordProofs, checks everything below, for every value of the constants,
from the assumptions named in the modules (`KAssumption`, `RflovAssumption`, `FlovAssumption`, `FlyCreditsAssumption`,
`FlovRoutingAssumption`, `VotingAssumption`, `ParkingAssumption`, `EvenAssumption`,
`NordRoutingAssumption`): K at least 2, gateable routers outside the bottom row, natural
thresholds, at most as many parked cores as the constructor's check admits, and an even K
for the ring of NoRD.

**RflovProofs.**

* `TypeCorrect`: `TypeOK` is inductive as it stands.
* `NeverAdjacentOff`: on a mesh of any size, with any gateable routers, threshold and
  traffic. `NoAdjacentOff` is far from inductive: that two neighbours cannot both collect
  each other's consent depends on what is on the channels. The inductive invariant
  `IInv` (checked by TLC before it was proved) says of every link: the receiver's view is
  current unless an announcement is under way (`Told`); ids under way are bounded by
  the sender's, strictly if a later announcement follows (`Hids`), so that an answer with the current
  id answers the current drain; a neighbour that consented knows of the drain, has no
  announcement unread and is not off, and is on if it is the one that has to yield
  (`Consent`); if it drains itself, it announced that before it consented (`Order`), so
  that the requester has heard of it when the last tag is up; the West and North
  priority (`Priority`); and what is true around a router that is off (`OffAlone`,
  `OffIsFinal`). The step that matters is `PowersOffAlone`: if two neighbours could both go
  off in one cycle, each would have heard of the other's drain, and `Priority` would have
  stopped one of them.
* `OffOnlyByConsent`: the action property `OffByConsent` from the same invariant, with
  `Silent`: the link to a neighbour that drains carries nothing after the answer.
* `ViewsAreCurrent`: `ViewIsCurrent`, from `Told` and the empty output queues (`Shape`).
* `DrainsAreBounded`: no drain outlasts the threshold, but for the idle cycle that ends it.
* `RflovImplementsPowerGating`: the initial states map to the initial state, and every
  step to a step of PowerGating or a stutter. Moving handshakes leaves consent as it is
  (`ConsentMoves`), answering only adds to it (`ConsentGrows`), a new drain starts without
  any (`ConsentOfDrain`, by the bounds on the ids), and who consented sends nothing
  (`GrantedStaysQuiet`, from `Silent`).

The second half of the module adds `LInv`, inductive together with `IInv`, about the
order of things on a link. With it all safety invariants of Rflov's run are proved.

* `OffIsAlwaysExpected`: the assertions of `_HandshakeEvaluate`. `OffTravels`: the news that
  a router is off follows no other announcement, and its receiver stays informed of the drain and
  has answered; `LastAnswer`: the answer to the current drain is the last one under way, so
  that none is left when all tags are up; `Edge`: on the ports at the edge only "on" is
  ever announced, and not believed.
* `FlitsAreNeverCutOff`: `NoFlitBehind`, no flit is on the link behind an answer, nor while
  the neighbour does not yet know that the router is off. The step that matters is
  `NothingSent`: neither the neighbour's pipeline nor a flit flying over it puts one there.

**FlovProofs.** What FLOVRouters know of each other across routers that are off, for every K,
any gateable routers, votes, wake-up signals and thresholds, in two parts: what routers know, which
needs none of the consent that finding 1 breaks, and what consent is worth until a router wakes up.

* `KInv` looks at one channel: what r believes of a direction (`Known`: `_downstream_states`
  and `_logical_neighbors`) becomes, once r has read the handshakes still in the
  channel (`Arrived`, `Coming`) and in its neighbour's queue (`Queued`), what the neighbour has to show
  (`Shown`): itself or, if it is off, what it knows of the router beyond. `Agree` compares
  the names only when the pipeline of the router works. Neither is inductive alone: a handshake without
  a name speaks of the router already known, and one without a state names only a router that is not
  on (`Fits`), and whoever has a working pipeline is known by name (`Named`). Before
  the proof, TLC searched several hundred thousand states of the row of three for a violation
  of `KInv` (a partial search) and found none.
* `ReadStep` is the step that matters: a router that is off reads and relays in the same
  pass, so what it shows changes together with what it sends (`RelayTells`). `PowerStep`: a router that
  goes off announces what is behind it (`AnnouncementTells`).
* From one channel to a stretch: if nothing is under way, each router agrees with the next
  (`StretchTells`). The router furthest along that disagreed with the downstream router
  would have a neighbour that is off and disagrees too (`KnowsDownstream`), or none before the edge, where
  `_downstream_states` is always off (`KnowsNobody`).

`FlovTypeCorrect`, `DownstreamIsKnown` (`DownIsCurrent`) and `LogicalIsKnown` (`LogicalIsCurrent`) follow.

The second part has the premise `[]NoWakeup`, no router in `power_wakeup`. As its conclusions are safety
properties, they hold of every behaviour up to the first wake-up of any router. After
one they may fail, as finding 1 shows, so a premise of this kind is needed. Within it routers
may drain, give up, be overruled, drain again and go off in any order, under any policies.

* `ConsentIsReal`: `ConsentInv` is inductive together with `KInv`. It looks at a router that is not
  off and at all that is on the stretch of off routers between it and its
  downstream router: the handshakes in the order in which they will be read (`Way`) and the
  flits (`Flits`). `Agreed` is its point: an answer in the stretch that fits the
  current drain was given by the router that is downstream now, which has been silent since,
  with neither a handshake nor a flit behind the answer.
* Per channel, `LegalInv` says that each handshake on it will meet the state of its receiver that the
  assertions ask for, once those before it are read; `IdInv` who may have sent it, and
  `NbrInv` what becomes of `_neighbor_states`.
* Per stretch, `NewsInv` gives the order of the announcements (that a router went off comes before all
  other news, drains come in the order of their hids), `RespInv` says that an answer that is due is due to the last
  drain read, `DoneInv` and `TagInv` that answers and tags mean what they say, and `GoneInv` clears up after the last
  router before the edge went off.
* Priority makes `Agreed` alone too strong: two routers that face each other may
  drain at once and answer each other. Then the one whose
  West or North side the other is on finds out in the same cycle, or has the announcement
  ahead of the answer (`Overruled`, the last case of `DoneInv`), and gives up before it can go off;
  `EarlyInv` and `StartInv` say that it does.
* The hard step is `PowerStateEvaluate`: a router that goes off joins two stretches into one,
  where the handshakes of the farther now follow those of the nearer. `PowerMerge`: the router at the other end
  of the nearer stretch stays on and has no announcement before it but the one that is sent now, which is read
  before all that follows.

`AssertionsHold` (`HandshakesExpected`), `ConsentPrecedesOff` (`OffByConsent`) and `OffInSilence` (`SwitchesInSilence`)
follow. `AsleepUntilAsked` discharges the premise where nobody asks for a wake-up, and
`GflovIsSafe` is the result for a mesh that stays under G-FLOV: there all three hold without it.
Before the proof TLC checked `ConsentInv` on all 4128 states that an instance of the row of three reaches
without a wake-up, and searched part of larger ones.

**FlyCreditsProofs**, for rows of any length, packets of any sizes, any number of switches
and packets, and buffers of up to 13 slots. The bound is a hypothesis of the theorems and
the code has no such check: from 14 slots on TLC finds a slot lost (section 6). BookSim's
own default is 8 (`booksim_config.cpp:103`), the run files with fly-over have at most 8.

The invariant (`FlyCreditsInvariant`) has four parts, which hold one another up:

* `Handshake` lists the stages of a change of state and what is on the handshake channels
  in each: `Still`, `Asking` (the announcement flies over routers that are off), `Waiting`
  (the nearest router that is not off has it but still sends), `Answering`, `Agreed`
  (the tag is up) and `Telling` (the news flies back). From the answer on no flit is
  between the router that answered and the one that changes (`Hush`).
* `SlotsOK` is the conservation law of a link: what the sender counts as taken is what
  is used beyond (the buffer, or the image and the slots not yet handed over of a router
  that is off), plus flits and credits on the way. Two corrections: until the sender reads that
  the next router went off it does not count the buffer beyond, and until it reads that the
  router came on it counts slots that nobody uses any more, which its read sets free.
* `PacketsOK` says that the flits on a link are whole packets in order (`InOrder`), that with
  `wait_for_tail_credit` a head flit goes to an empty buffer (`Alone`), and when the VC is
  held although no packet is under way: until the slots of a router that
  went off are handed over, which is why no flit meets an image still being rebuilt.
* `Cycles` makes `_credit_counter = 0` (`flov_router.cpp:2674`) harmless: a router that went
  off hands over one slot per cycle, and every stage knows how many cycles have gone by.
  A further change that ends in zeroing the counter takes at least 13 cycles from the
  first announcement until the news is read, more if it flies over other routers.

`NoErrorEver`, `ImagesAreExact` (`ImageIsExact`; over a stretch of routers that are off the
images are equal, from the nearest different one, `NextOn`) and `VcReturns` follow.
`VcReturns` also assumes `WaitForTail`; without, the property is false (finding 3).

**FlovRoutingProofs.**

* `BeforeIsStrictOrder`: the order of escape buffers is irreflexive and transitive.
* `RoutesStayInMesh`: `TypeOK` and `StaysInMesh` for all four functions. `RoutingInv` adds
  that the bottom row and the destination stay on and that a routed packet is not at its
  destination; the lemma `BottomSeesOn` is why the functions never go South from
  the bottom row.
* `EscapeIsDeadlockFree`: with `flov_mesh` or `adaptive_flov_mesh`, `EscapeAcyclic` is
  invariant, with any number of switches and routes of any age. `EscapeInv` says that
  escape packets are sent by `EscapePort`, and where a packet that came through a port can
  be (`Arrival`): after going East or West it is in the row of its destination or in the
  bottom row and not past the column, after going North it is in the column. A packet does not overshoot,
  because the destination and the bottom row are on (`NoOvershoot`).

**VotingProofs**, for epochs longer than K (`LongEpoch`), except the last:

* `VotingTypeCorrect`, `AllAreHeard`, `VotesStayBounded` (never more than two votes per
  node of a row or column): the invariant `StillDue` says which rows and columns are done (`Past`).
* `VotesTally`: `VotesAreTallied`. The cardinalities of the ballots of a turn and of
  earlier ones add up, because ballots carry their turn (`CastTally`).
* `MajorityMoves`, from the tally. `VotingImplementsPolicyTurns`: the refinement.
* `ShortEpochsNeverTurn`: if the epoch is not longer than K, no policy ever changes.

**ParkingProofs.**

* `CoresKeepRouters`: no active core is left without its router, the fabric manager is on.
* `ParkedStayApart`: under `rpc` the eight routers around a parked one stay on (`Surrounded`).
* `NetworkConnected`: `Connected` for both policies. Under `rpc` every router that is on
  reaches the bottom row downwards, around parked routers that stand alone (`Downward`,
  `HoldsBottomRow`). Under `rpa`, every set of routers that is cut off contains a component that
  still waits to be connected (`CutOffWaits`), and the path that connects it reaches the
  fabric manager (`PathReachesManager`).
* `OverfullNeverEnds`: if more cores are asked for than may be drawn, the first loop never ends.

**RpMeshProofs, the tables.** That the tables of router parking are right, for every K, every
fabric manager and whatever routers `Parking` leaves on. What a loop computes is a
recursive function of the number of turns (`Turns`, `Ball`), and the installed provers
cannot use the library's induction theorem, which takes a predicate as its parameter. So
the module proves induction for a *set* of numbers (`Induction`, from the well-order of
the naturals, `Least`), and from it that `Turns` unfolds turn by turn (`TurnByTurn`).

* *Balls.* `Ball(r, L, n)`, the reference definition of reachability, grows by one link at
  either end (`BallExtends`, `BallPrepends`), and in a network without an isolated part
  (`Whole`) it is everything after K * K - 1 turns (`BallIsWhole`: it gains a router per
  turn until it stops growing).
* *Breadth-first search.* `WalkOK` is the invariant of the loop of `_BFS`: depths along
  the queue do not fall and differ by at most one (`QueueOK`, `DepthOK`), the links are a
  tree of shortest paths over what was visited (`LinksOK`, `JoinOK`). Every turn takes one
  router off the queue for good, so K * K turns empty it: `TreeOfShortestPaths`.
* *Shortest paths.* `SearchOK` is the invariant of `_CalDist` and `_CalUpDownDist`: distances are
  lengths of paths, those of visited routers are the least ones and have been passed on
  over every link, predecessors are visited and one closer. From it `NoShorterPath`, hence
  `VisitedIsFinal` (`SearchIsFinal`).
* *Tables.* `BackToFirstHop`: following predecessors for K * K turns ends at a neighbour
  of the source from which the destination is one hop less away; `DirectionLeads`: the difference
  of ids names the port towards it, on any mesh of width 2 or more. Together `TableOK`: every entry leads one
  hop along a shortest path over its links (`FirstHopsOK`).

`TablesInv` collects this, and is inductive (TLC checked it first, on 3x3). It uses `Connected` at the end of
the constructor, proved in ParkingProofs (`ParkedNetwork`).

**RpMeshProofs, the tables at work.** `Inv` adds where the flit is (`PktOK`) to `ParkingInv` and `TablesInv`.

* `SearchesAreExact` is `VisitedIsFinal`; `FlitsStayOn`: a flit is never at a parked router
  (`FlitsMeetRouters`).
* `RegularHopsComeCloser`: `Closer`, as a hop over the table of one router leaves exactly
  one hop less over the links all tables were made from (`HopsAreApart`).
* `EscapeNeverClimbsAgain`: `NoClimbAfterDescent`. If a flit went down to s and then up,
  both neighbours would be closer to the fabric manager than s; there is only one such
  neighbour in the tree, so the flit would be back, although each hop brings it closer.

**NordProofs**, for even K from 4 on and any set of routers off.

* `RingIsCycle`: the ring leads from every router to the one with the next number, which
  it enters by its ring input; with `RingIdInjective` it is one cycle through all routers.
* `NordTypeCorrect`, `OffOnlyByRing`: a packet reaches a router that is off by the ring.
* `EscapeRingOrdered`: the action property `EscapeInOrder`. It needs `Dateline`, proved
  invariant (`DatelineHolds`): a packet on the low VC has its destination ahead; one on
  the high VC either has its destination behind and has not wrapped around, or has wrapped and has met only
  routers that are off since, none of which is its destination.

Only model-checked: Flov's `HandshakesExpected`, `OffByConsent` and `SwitchesInSilence` after a router
has woken up (the first is then false in general, finding 1: the runs that check them have instances
in which answers cannot be mistaken), `EscapeAcyclic` for the optimised functions, and all liveness (the provers at hand handle
neither fairness nor ENABLED), so `Delivered` in every run, although the theorems say that
packets come closer, or take their buffers in order. No module uses RECURSIVE operators.

## 6. Findings

Each is a run that TLC finds violated.

1. `flov_hid` (`routers/flov_router.cpp:2711`). A waking router recognises its answers by
   id alone. Routers count ids apart (drains and wake-ups both have odd ones), so it may take the
   answer to another router's abandoned drain, met on its way, for its own. In the run,
   router (0,2) drains while (0,1) is off and gives up; (0,0)'s answer, id 3, reaches (0,1)
   just after it announced its wake-up with id 3. (0,1) comes on while (0,0) sends
   packets across it, and (0,0)'s `assert(_drain_done_sent[input])` (line 2587) fails.
2. `flov_stuck` (`routers/flov_router.cpp:837`). Under No-FLOV (and G-FLOV) a waking
   router waits for the answer of a downstream router that was already draining and goes
   off; only the R-FLOV code re-tags such ports every cycle. In rows of three this also
   keeps `RflovSeparates` from holding.
3. `credits_no_tail` (`buffer_state.cpp:751`). `ClearCredits` marks the VC as taken and
   relies on `wait_for_tail_credit` to give it back; most FLOV run files set that to 0. The
   simulator confirms it: it reports a possible deadlock with 0 and delivers with 1.

Also seen, outside the runs:

* An `RFLOVRouter` that is off ignores `WakeUp()` (`routers/rflov_router.cpp:262`); the node
  that raised it (`flovtrafficmanager.cpp:679`) waits for ever.
* Zeroing `_credit_counter` when a router beyond goes off (`routers/flov_router.cpp:2674`) loses
  slots if `vc_buf_size` exceeds the length of the handshake (the model loses some from 14
  slots on, and never with up to 13, `ImagesAreExact`; the run files use at most 8).
* If the epoch is not longer than gK, votes are never applied (`flovtrafficmanager.cpp:511`;
  proved as `ShortEpochsNeverTurn`).
* The draw of cores never ends if the fabric manager lies above the bottom row and all cores
  above that row are to be parked (`networks/network.cpp:249`), for instance 75 % of a 4x4 mesh;
  the constructor's check admits it (proved as `OverfullNeverEnds`).
* The tests `== 300` of the timeouts in `routers/rp_router.cpp` need a `vc_alloc_delay` that
  divides 300.
* `routers/nord_router.cpp:349` tests `GetSimTime() % _wakeup_monitor_epoch` without
  negation, so the count of requests is reset in every cycle but one of an epoch.
* The ring of NoRD misses routers if gK is odd; hence `EvenAssumption`.

## 7. What is not modelled

* The virtual-channel pipeline, allocators and arbiters (BookSim's own), except for what
  the protocols see of them; shared buffer policies; several VCs and message classes in
  FlyCredits.
* `FLOVTrafficManager`: injection, retirement of packets beyond their latency, statistics.
* `GFLOVRouter`, G-FLOV in a class of its own and an earlier version of the protocol; Flov
  models that policy from `FLOVRouter`.
* NoRD: the handshakes by which routers go off (those of `RFLOVRouter`), the wake-up by
  the interface, the bypass latches and their credits. So NordRouting claims nothing about
  packets on their way while routers switch.
* Router parking after the choice is static in this code: `RPTrafficManager` does not
  reconfigure, so there is no switching of tables to model.
* The power model (floating point, after the simulation), traffic patterns and statistics
  (random), the gem5 port (the same router code behind another interface).

## 8. Plan

Done: Mesh, Rflov, Flov, FlyCredits, FlovRouting, Voting with PolicyTurns, Parking,
RouteTables, RpMesh, NordRing, NordRouting, PowerGating, with their runs, and the eight proof
modules. What is left, most important first:

1. **Flov**: `ConsentInv` past the first wake-up, under a condition that rules out the answers of
   finding 1. A router that wakes up splits a stretch in two, as one that goes off joins them.
2. **NoRD while routers switch**: the handshakes and the latch credits, in composition with NordRouting.
3. **GFLOVRouter**, if it is to be kept beside `FLOVRouter`.
4. The optimised routing functions: the escape order for every K.
