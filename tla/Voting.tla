------------------------------- MODULE Voting -------------------------------
(***************************************************************************)
(* The votes of FLOVTrafficManager on the policies of the routers.  Every  *)
(* node keeps the latencies of the packets that arrived for it.  After a   *)
(* monitoring epoch of Epoch cycles comes a round of K cycles; in its      *)
(* cycle t the nodes of row t and column t cast a ballot, for all routers  *)
(* of that row or column, and start new statistics.  In the cycle after,   *)
(* the sign of its votes moves the policy of each router by one step, and  *)
(* the next epoch begins.                                                  *)
(*                                                                         *)
(* Latencies are abstracted to the side of the watermarks their average    *)
(* is on.  A packet may move the average to any side.                      *)
(***************************************************************************)
EXTENDS Mesh, FiniteSets

CONSTANTS
  Epoch,   \* flov_monitor_epoch
  Cores    \* nodes whose core is on, and receives packets

ASSUME VotingAssumption ==
  /\ Epoch \in Nat \ {0}
  /\ Cores \subseteq Router

VARIABLES
  counter,  \* _monitor_counter
  plat,     \* side of the average of _per_node_plat, or "none" without samples
  votes,    \* _power_state_votes
  policy,   \* _flov_policy of the routers that have one
  ballots,  \* history: the ballots <<node, turn, vote>> of this round
  due       \* history: nodes with samples when the round began, yet to vote

vars == <<counter, plat, votes, policy, ballots, due>>

Side     == {"low", "between", "high"}
Policy   == {"gflov", "rflov", "noflov"}
HasPolicy == Router \ BottomRow

Init ==
  /\ counter = 0
  /\ plat = [n \in Router |-> "none"]
  /\ votes = [n \in Router |-> 0]
  /\ policy = [r \in HasPolicy |-> "gflov"]
  /\ ballots = {}
  /\ due = {}

-----------------------------------------------------------------------------
(* _RetireFlit: a packet arrives at node n. *)
Retire(n, s) ==
  /\ plat' = [plat EXCEPT ![n] = s]
  /\ UNCHANGED <<counter, votes, policy, ballots, due>>

-----------------------------------------------------------------------------
(* The beginning of _Step, and the increment of the counter at its end.    *)

InRound == counter \div Epoch > 0
Turn    == counter % Epoch

(* Bug: the round lasts as long as the epoch. *)
Bug_LastTurnIsEpoch == Epoch

(* Bug: the round ends in the cycle in which the last nodes vote. *)
Bug_LastTurn == K - 1
LastTurn == K

VoteOf(n) == CASE plat[n] = "low" -> 1 [] plat[n] = "high" -> -1 [] OTHER -> 0

Voters == {n \in Router : plat[n] # "none" /\ (Row(n) = Turn \/ Col(n) = Turn)}

(* Bug: a ballot counts for the row and the column of its node. *)
Bug_CountsFor(n, r, t) == Row(r) = Row(n) \/ Col(r) = Col(n)

(* A ballot counts once for its own router, and for the others of the row  *)
(* or column whose turn it is.                                             *)
CountsFor(n, r, t) ==
  \/ r = n
  \/ Row(n) = t /\ Row(r) = t
  \/ Col(n) = t /\ Col(r) = t

Wait ==
  /\ ~InRound
  /\ counter' = counter + 1
  /\ due' = IF counter' = Epoch THEN {n \in Router : plat[n] # "none"} ELSE due
  /\ UNCHANGED <<plat, votes, policy, ballots>>

(* Bug: the statistics of an average between the watermarks are kept. *)
Bug_PlatAfterVote == [n \in Router |-> IF n \in Voters /\ VoteOf(n) # 0 THEN "none" ELSE plat[n]]

PlatAfterVote == [n \in Router |-> IF n \in Voters THEN "none" ELSE plat[n]]

(* The votes that r receives in this cycle. *)
Received(r) ==
  LET voters == {n \in Voters : CountsFor(n, r, Turn)}
  IN Cardinality({n \in voters : VoteOf(n) = 1}) - Cardinality({n \in voters : VoteOf(n) = -1})

(* Bug: a cycle in which nobody votes is not counted. *)
Bug_CounterAfterVote == IF Voters = {} THEN counter ELSE counter + 1

CounterAfterVote == counter + 1

CastVotes ==
  /\ InRound
  /\ Turn # LastTurn
  /\ votes' = [r \in Router |-> votes[r] + Received(r)]
  /\ plat' = PlatAfterVote
  /\ ballots' = ballots \cup {<<n, Turn, VoteOf(n)>> : n \in Voters}
  /\ due' = due \ {n \in Router : plat'[n] = "none"}
  /\ counter' = CounterAfterVote
  /\ UNCHANGED policy

Aggressed(q) == IF q = "noflov" THEN "rflov" ELSE "gflov"
Regressed(q) == IF q = "gflov" THEN "rflov" ELSE "noflov"

(* Bug: a router without votes is held to be slow. *)
Bug_NewPolicy(r) == IF votes[r] > 0 THEN Aggressed(policy[r]) ELSE Regressed(policy[r])

NewPolicy(r) ==
  CASE votes[r] > 0 -> Aggressed(policy[r])
    [] votes[r] < 0 -> Regressed(policy[r])
    [] OTHER        -> policy[r]

VotesAfterTurn == [n \in Router |-> 0]

(* Nobody votes in this cycle: there is no row or column K. *)
ApplyVotes ==
  /\ InRound
  /\ Turn = LastTurn
  /\ policy' = [r \in HasPolicy |-> NewPolicy(r)]
  /\ votes' = VotesAfterTurn
  /\ counter' = 1
  /\ ballots' = {}
  /\ UNCHANGED <<plat, due>>

Step == Wait \/ CastVotes \/ ApplyVotes

Next ==
  \/ \E n \in Cores, s \in Side : Retire(n, s)
  \/ Step

(* The simulation goes on. *)
Spec == Init /\ [][Next]_vars /\ WF_vars(Step)

-----------------------------------------------------------------------------
(* Properties.                                                             *)

TypeOK ==
  /\ counter \in 0 .. Epoch + K
  /\ plat \in [Router -> Side \cup {"none"}]
  /\ votes \in [Router -> Int]
  /\ policy \in [HasPolicy -> Policy]
  /\ ballots \subseteq Router \X Coord \X {-1, 0, 1}
  /\ due \subseteq Router

(* The ballots that concern router r: those of its row when its row had    *)
(* its turn, of its column when that had its turn, and its own.            *)
Electorate(r) ==
  {b \in ballots : \/ b[1] = r
                   \/ Row(b[1]) = Row(r) /\ b[2] = Row(r)
                   \/ Col(b[1]) = Col(r) /\ b[2] = Col(r)}

For(r)     == {b \in Electorate(r) : b[3] = 1}
Against(r) == {b \in Electorate(r) : b[3] = -1}

(* _Step adds the ballots of all cycles of a round up: each counts once    *)
(* for the routers it concerns, none is lost, and none of an earlier       *)
(* round is left over.                                                     *)
VotesAreTallied ==
  /\ \A r \in Router : votes[r] = Cardinality(For(r)) - Cardinality(Against(r))
  /\ ~InRound => ballots = {}

(* The policy of a router moves only with the majority of the ballots that *)
(* concern it, and to the side of the majority.                            *)
MovesByMajority ==
  [][\A r \in HasPolicy : policy'[r] # policy[r] =>
       /\ Cardinality(For(r)) # Cardinality(Against(r))
       /\ policy'[r] = IF Cardinality(For(r)) > Cardinality(Against(r))
                       THEN Aggressed(policy[r]) ELSE Regressed(policy[r])]_vars

(* A node with packets when the round begins has voted when it ends, and   *)
(* its statistics of before the round are gone (_per_node_plat).           *)
EveryNodeIsHeard == ~InRound => due = {}

(* No router has more than two votes per node of a row or column.          *)
VotesAreBounded == \A r \in Router : votes[r] \in -(2 * K) .. 2 * K

(* One turn per epoch, by one step, and never two in short succession:     *)
(* what the protocol of the routers relies on.                             *)
Environment == INSTANCE PolicyTurns WITH
  Routers  <- HasPolicy,
  MinEpoch <- Epoch + K - 1,
  policy   <- policy,
  since    <- IF counter = 0 THEN 0 ELSE counter - 1

ImplementsPolicyTurns == Environment!Spec

(* Every round comes to an end, and its votes are applied.  (Only if the   *)
(* epoch is longer than K: otherwise the turn never gets to K.)            *)
RoundsEnd == []<>(counter = 1)
=============================================================================
