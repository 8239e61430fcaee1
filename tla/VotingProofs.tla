---------------------------- MODULE VotingProofs ----------------------------
(***************************************************************************)
(* Proofs about the votes on the fly-over policies, for every K, every     *)
(* epoch and every set of nodes that receive packets.                      *)
(***************************************************************************)
EXTENDS Voting, FiniteSetTheorems, FunctionTheorems, TLAPS

LongEpoch == Epoch > K

(* In an epoch longer than K cycles, the counter says how far a round is.  *)
LEMMA RoundCounter ==
  ASSUME LongEpoch, counter \in 0 .. Epoch + K
  PROVE  /\ InRound <=> counter >= Epoch
         /\ InRound => Turn = counter - Epoch
<1> USE KAssumption, VotingAssumption DEF LongEpoch
<1>1. CASE counter < Epoch
  <2>1. counter \div Epoch = 0
    BY <1>1
  <2> QED
    BY <1>1, <2>1 DEF InRound
<1>2. CASE counter >= Epoch
  <2>1. counter \div Epoch = 1 /\ counter % Epoch = counter - Epoch
    BY <1>2
  <2> QED
    BY <1>2, <2>1 DEF InRound, Turn
<1> QED
  BY <1>1, <1>2

-----------------------------------------------------------------------------
(* The numbers of voters. *)

RowOf(t) == {n \in Router : Row(n) = t}
ColOf(t) == {n \in Router : Col(n) = t}

LEMMA LineSize ==
  ASSUME NEW t \in Coord
  PROVE  /\ IsFiniteSet(RowOf(t)) /\ Cardinality(RowOf(t)) <= K
         /\ IsFiniteSet(ColOf(t)) /\ Cardinality(ColOf(t)) <= K
<1>1. IsFiniteSet(Coord) /\ Cardinality(Coord) = K
  BY FS_Interval, KAssumption DEF Coord
<1>2. [n \in RowOf(t) |-> Col(n)] \in Injection(RowOf(t), Coord)
  BY DEF Injection, IsInjective, RowOf, Router, Row, Col
<1>3. [n \in ColOf(t) |-> Row(n)] \in Injection(ColOf(t), Coord)
  BY DEF Injection, IsInjective, ColOf, Router, Row, Col
<1>4. IsFiniteSet(RowOf(t)) /\ Cardinality(RowOf(t)) <= K
  BY <1>1, <1>2, FS_Injection
<1> QED
  BY <1>1, <1>3, <1>4, FS_Injection

LEMMA RouterFinite == IsFiniteSet(Router)
<1>1. IsFiniteSet(Coord)
  BY FS_Interval, KAssumption DEF Coord
<1> QED
  BY <1>1, FS_Product DEF Router

(* In its turn a line gives at most K votes, and none in other turns. *)
LEMMA ReceivedBound ==
  ASSUME NEW r \in Router, Turn \in Coord
  PROVE  LET b == (IF Row(r) = Turn THEN K ELSE 0) + (IF Col(r) = Turn THEN K ELSE 0)
         IN  Received(r) \in -b .. b
<1> DEFINE S  == {n \in Voters : CountsFor(n, r, Turn)}
           F  == {n \in S : VoteOf(n) = 1}
           A  == {n \in S : VoteOf(n) = -1}
           Rw == IF Row(r) = Turn THEN RowOf(Turn) ELSE {}
           Cl == IF Col(r) = Turn THEN ColOf(Turn) ELSE {}
           kr == IF Row(r) = Turn THEN K ELSE 0
           kc == IF Col(r) = Turn THEN K ELSE 0
<1>1. S \subseteq Rw \cup Cl
  BY DEF Voters, CountsFor, RowOf, ColOf
<1>2. /\ IsFiniteSet(Rw) /\ Cardinality(Rw) \in Nat /\ Cardinality(Rw) <= kr
      /\ IsFiniteSet(Cl) /\ Cardinality(Cl) \in Nat /\ Cardinality(Cl) <= kc
  BY LineSize, FS_EmptySet, FS_CardinalityType
<1>3. /\ IsFiniteSet(Rw \cup Cl)
      /\ Cardinality(Rw \cup Cl) \in Nat /\ Cardinality(Rw \cup Cl) <= kr + kc
  <2>1. Cardinality(Rw \cap Cl) \in Nat
    BY <1>2, FS_Intersection, FS_CardinalityType
  <2>2. IsFiniteSet(Rw \cup Cl)
        /\ Cardinality(Rw \cup Cl) = Cardinality(Rw) + Cardinality(Cl) - Cardinality(Rw \cap Cl)
    BY <1>2, FS_Union
  <2>3. kr \in Nat /\ kc \in Nat
    BY KAssumption
  <2> HIDE DEF Rw, Cl, kr, kc
  <2> QED
    BY <1>2, <2>1, <2>2, <2>3, FS_CardinalityType
<1>4. F \subseteq Rw \cup Cl /\ A \subseteq Rw \cup Cl
  BY <1>1
<1>5. /\ Cardinality(F) \in Nat /\ Cardinality(F) <= kr + kc
      /\ Cardinality(A) \in Nat /\ Cardinality(A) <= kr + kc
  <2>1. kr + kc \in Nat
    BY KAssumption
  <2> HIDE DEF Rw, Cl, kr, kc, F, A
  <2> QED
    BY <1>3, <1>4, <2>1, FS_Subset, FS_CardinalityType
<1>6. Received(r) = Cardinality(F) - Cardinality(A)
  BY DEF Received
<1>7. kr \in Nat /\ kc \in Nat
  BY KAssumption
<1>8. Received(r) \in -(kr + kc) .. (kr + kc)
  <2> HIDE DEF F, A, kr, kc
  <2> QED
    BY <1>5, <1>6, <1>7
<1> QED
  BY <1>8

-----------------------------------------------------------------------------
(* The inductive invariant. *)

(* The rows and columns that have had their turn in this round: 0 .. Past-1. *)
Past == IF counter >= Epoch THEN counter - Epoch ELSE 0

(* At most K votes have come for every line that had its turn. *)
MostVotes(r) == (IF Row(r) < Past THEN K ELSE 0) + (IF Col(r) < Past THEN K ELSE 0)
Bounded      == \A r \in Router : votes[r] \in -MostVotes(r) .. MostVotes(r)

(* The nodes that are still due have samples, and their lines' turns are   *)
(* still to come.                                                          *)
StillDue ==
  \A n \in due :
    /\ plat[n] # "none"
    /\ counter >= Epoch /\ Row(n) >= Past /\ Col(n) >= Past

IInv == TypeOK /\ Bounded /\ StillDue

LEMMA InitIInv == LongEpoch /\ Init => IInv
<1> SUFFICES ASSUME LongEpoch, Init PROVE IInv
  OBVIOUS
<1> USE KAssumption, VotingAssumption DEF LongEpoch, Init
<1>1. TypeOK
  BY DEF TypeOK, Policy, Side
<1>2. \A r \in Router : MostVotes(r) = 0
  BY DEF MostVotes, Past, Router, Coord, Row, Col
<1>3. Bounded
  BY <1>2 DEF Bounded
<1> QED
  BY <1>1, <1>3 DEF IInv, StillDue

(* In a cycle of voting the turn is the first line that is not past. *)
LEMMA CastTurn ==
  ASSUME LongEpoch, TypeOK, CastVotes
  PROVE  /\ Turn = Past /\ Turn \in Coord
         /\ counter >= Epoch /\ counter' = counter + 1
         /\ counter' \in 0 .. Epoch + K
         /\ Past' = Past + 1
<1> USE KAssumption, VotingAssumption DEF LongEpoch
<1>1. counter >= Epoch /\ Turn = counter - Epoch /\ counter' = counter + 1 /\ Turn # K
  BY RoundCounter DEF TypeOK, CastVotes, CounterAfterVote, LastTurn
<1> QED
  BY <1>1 DEF TypeOK, Past, Coord

LEMMA ApplyTurn ==
  ASSUME LongEpoch, TypeOK, ApplyVotes
  PROVE  counter = Epoch + K /\ Past = K /\ counter' = 1 /\ Past' = 0
<1> USE KAssumption, VotingAssumption DEF LongEpoch
<1>1. counter >= Epoch /\ Turn = counter - Epoch /\ counter' = 1 /\ Turn = K
  BY RoundCounter DEF TypeOK, ApplyVotes, LastTurn
<1> QED
  BY <1>1 DEF TypeOK, Past

LEMMA WaitTurn ==
  ASSUME LongEpoch, TypeOK, Wait
  PROVE  /\ counter < Epoch /\ counter' = counter + 1 /\ counter' \in 0 .. Epoch + K
         /\ Past = 0 /\ Past' = 0
<1> USE KAssumption, VotingAssumption DEF LongEpoch
<1>1. counter < Epoch /\ counter' = counter + 1
  BY RoundCounter DEF TypeOK, Wait
<1> QED
  BY <1>1 DEF TypeOK, Past

LEMMA TypeOKStep == LongEpoch /\ TypeOK /\ [Next]_vars => TypeOK'
<1> SUFFICES ASSUME LongEpoch, TypeOK, [Next]_vars PROVE TypeOK'
  OBVIOUS
<1> USE DEF TypeOK
<1>1. ASSUME NEW n \in Cores, NEW s \in Side, Retire(n, s) PROVE TypeOK'
  BY <1>1, VotingAssumption DEF Retire
<1>2. CASE Wait
  BY <1>2, WaitTurn DEF Wait
<1>3. CASE CastVotes
  <2>1. Turn \in Coord /\ counter' \in 0 .. Epoch + K
    BY <1>3, CastTurn
  <2>2. votes' \in [Router -> Int]
    <3> SUFFICES ASSUME NEW r \in Router PROVE votes[r] + Received(r) \in Int
      BY <1>3 DEF CastVotes
    <3>1. (IF Row(r) = Turn THEN K ELSE 0) + (IF Col(r) = Turn THEN K ELSE 0) \in Int
      BY KAssumption
    <3> QED
      BY <2>1, <3>1, ReceivedBound
  <2>3. plat' \in [Router -> Side \cup {"none"}]
    BY <1>3 DEF CastVotes, PlatAfterVote
  <2>4. ballots' \subseteq Router \X Coord \X {-1, 0, 1}
    BY <1>3, <2>1 DEF CastVotes, Voters, VoteOf
  <2>5. due' \subseteq Router /\ policy' = policy
    BY <1>3 DEF CastVotes
  <2> QED
    BY <2>1, <2>2, <2>3, <2>4, <2>5
<1>4. CASE ApplyVotes
  <2>1. counter' \in 0 .. Epoch + K
    BY <1>4, KAssumption, VotingAssumption DEF ApplyVotes
  <2>2. policy' \in [HasPolicy -> Policy]
    BY <1>4 DEF ApplyVotes, NewPolicy, Aggressed, Regressed, Policy
  <2> QED
    BY <1>4, <2>1, <2>2 DEF ApplyVotes, VotesAfterTurn
<1>5. CASE UNCHANGED vars
  BY <1>5 DEF vars
<1> QED
  BY <1>1, <1>2, <1>3, <1>4, <1>5 DEF Next, Step

LEMMA BoundedStep == LongEpoch /\ TypeOK /\ Bounded /\ [Next]_vars => Bounded'
<1> SUFFICES ASSUME LongEpoch, TypeOK, Bounded, [Next]_vars, NEW r \in Router
             PROVE  votes'[r] \in -MostVotes(r)' .. MostVotes(r)'
  BY DEF Bounded
<1> USE KAssumption
<1>0. votes[r] \in -MostVotes(r) .. MostVotes(r) /\ MostVotes(r) \in Nat
  BY DEF Bounded, MostVotes
<1>1. CASE (\E n \in Cores, s \in Side : Retire(n, s)) \/ UNCHANGED vars
  <2>1. votes' = votes /\ counter' = counter
    BY <1>1 DEF Retire, vars
  <2> QED
    BY <1>0, <2>1 DEF MostVotes, Past
<1>2. CASE Wait
  <2>1. Past = 0 /\ Past' = 0 /\ votes' = votes
    BY <1>2, WaitTurn DEF Wait
  <2> QED
    BY <1>0, <2>1 DEF MostVotes
<1>3. CASE CastVotes
  <2>1. Turn = Past /\ Turn \in Coord /\ Past' = Past + 1
    BY <1>3, CastTurn
  <2> DEFINE b == (IF Row(r) = Turn THEN K ELSE 0) + (IF Col(r) = Turn THEN K ELSE 0)
  <2>2. votes'[r] = votes[r] + Received(r) /\ Received(r) \in -b .. b /\ b \in Nat
    BY <1>3, <2>1, ReceivedBound DEF CastVotes
  <2>3. MostVotes(r)' = MostVotes(r) + b
    <3>1. Row(r) \in Nat /\ Col(r) \in Nat /\ Past \in Nat
      BY <2>1 DEF Router, Coord, Row, Col
    <3> QED
      BY <2>1, <3>1 DEF MostVotes
  <2> HIDE DEF b
  <2> QED
    BY <1>0, <2>2, <2>3
<1>4. CASE ApplyVotes
  <2>1. votes'[r] = 0 /\ MostVotes(r)' \in Nat
    BY <1>4 DEF ApplyVotes, VotesAfterTurn, MostVotes
  <2> QED
    BY <2>1
<1> QED
  BY <1>1, <1>2, <1>3, <1>4 DEF Next, Step

LEMMA StillDueStep == LongEpoch /\ TypeOK /\ StillDue /\ [Next]_vars => StillDue'
<1> SUFFICES ASSUME LongEpoch, TypeOK, StillDue, [Next]_vars, NEW n \in due'
             PROVE  /\ plat'[n] # "none"
                    /\ counter' >= Epoch /\ Row(n) >= Past' /\ Col(n) >= Past'
  BY DEF StillDue
<1>1. ASSUME NEW m \in Cores, NEW s \in Side, Retire(m, s)
      PROVE  plat'[n] # "none" /\ counter' >= Epoch /\ Row(n) >= Past' /\ Col(n) >= Past'
  <2>1. n \in due /\ counter' = counter /\ plat' = [plat EXCEPT ![m] = s] /\ s # "none"
    BY <1>1 DEF Retire, Side
  <2>2. plat[n] # "none" /\ counter >= Epoch /\ Row(n) >= Past /\ Col(n) >= Past
    BY <2>1 DEF StillDue
  <2>3. Past' = Past
    BY <2>1 DEF Past
  <2> QED
    BY <2>1, <2>2, <2>3 DEF TypeOK
<1>2. CASE Wait
  <2>1. Past' = 0 /\ counter < Epoch /\ plat' = plat
    BY <1>2, WaitTurn DEF Wait
  <2>2. n \notin due
    BY <2>1, VotingAssumption DEF StillDue, TypeOK
  <2>3. counter' = Epoch /\ n \in Router /\ plat[n] # "none"
    BY <1>2, <2>2 DEF Wait
  <2> QED
    BY <2>1, <2>3, KAssumption, VotingAssumption DEF Router, Coord, Row, Col
<1>3. CASE CastVotes
  <2>1. Turn = Past /\ Past' = Past + 1 /\ Turn \in Coord /\ counter >= Epoch /\ counter' = counter + 1
    BY <1>3, CastTurn
  <2>2. n \in due /\ n \in Router /\ plat'[n] # "none" /\ plat' = PlatAfterVote
    BY <1>3 DEF CastVotes, TypeOK
  <2>3. n \notin Voters /\ plat[n] # "none"
    BY <2>2 DEF PlatAfterVote
  <2>4. Row(n) # Turn /\ Col(n) # Turn
    BY <2>2, <2>3 DEF Voters
  <2>5. Row(n) >= Past /\ Col(n) >= Past
    BY <2>2 DEF StillDue
  <2> QED
    BY <2>1, <2>2, <2>4, <2>5, KAssumption, VotingAssumption DEF TypeOK, Router, Coord, Row, Col
<1>4. CASE ApplyVotes
  <2>1. Past = K /\ n \in due /\ n \in Router
    BY <1>4, ApplyTurn DEF ApplyVotes, TypeOK
  <2>2. Row(n) >= K
    BY <2>1 DEF StillDue
  <2> QED
    BY <2>1, <2>2, KAssumption DEF Router, Coord, Row
<1>5. CASE UNCHANGED vars
  BY <1>5 DEF vars, StillDue, Past
<1> QED
  BY <1>1, <1>2, <1>3, <1>4, <1>5 DEF Next, Step

LEMMA IInvStep == LongEpoch /\ IInv /\ [Next]_vars => IInv'
  BY TypeOKStep, BoundedStep, StillDueStep DEF IInv

-----------------------------------------------------------------------------
(* The votes counter and the statistics. *)

(* FLOVTrafficManager::_Step keeps the counter of the epoch within one     *)
(* epoch and one round, and the policies among the three, when an epoch is *)
(* longer than a round.                                                    *)
THEOREM VotingTypeCorrect == ASSUME LongEpoch PROVE Spec => []TypeOK
<1> QED
  BY LongEpoch, InitIInv, IInvStep, PTL DEF Spec, IInv

(* No router collects more than 2K votes in a round, so none are left over *)
(* from an earlier one (_power_state_votes, which _Step adds up and resets *)
(* in different cycles).                                                   *)
THEOREM VotesStayBounded == ASSUME LongEpoch PROVE Spec => []VotesAreBounded
<1>1. IInv => VotesAreBounded
  <2> SUFFICES ASSUME IInv, NEW r \in Router PROVE votes[r] \in -(2 * K) .. 2 * K
    BY DEF VotesAreBounded
  <2>1. votes[r] \in -MostVotes(r) .. MostVotes(r)
    BY DEF IInv, Bounded
  <2>2. MostVotes(r) \in 0 .. 2 * K
    BY KAssumption DEF MostVotes
  <2> QED
    BY <2>1, <2>2, KAssumption
<1> QED
  BY <1>1, LongEpoch, InitIInv, IInvStep, PTL DEF Spec

(* Every node with samples of the epoch has cast its ballot when the round *)
(* ends: the cycles in which rows and columns vote leave no node out.      *)
THEOREM AllAreHeard == ASSUME LongEpoch PROVE Spec => []EveryNodeIsHeard
<1>1. IInv => EveryNodeIsHeard
  BY RoundCounter DEF IInv, TypeOK, StillDue, EveryNodeIsHeard
<1> QED
  BY <1>1, LongEpoch, InitIInv, IInvStep, PTL DEF Spec

(* If the epoch is not longer than K cycles, the turn, a remainder, never  *)
(* gets to K: whatever the nodes vote, no policy ever moves.               *)
THEOREM ShortEpochsNeverTurn ==
  ASSUME Epoch <= K
  PROVE  Spec => [](policy = [r \in HasPolicy |-> "gflov"])
<1> DEFINE Still == counter \in Nat /\ policy = [r \in HasPolicy |-> "gflov"]
<1>1. Init => Still
  BY DEF Init
<1>2. Still /\ [Next]_vars => Still'
  <2> SUFFICES ASSUME Still, [Next]_vars PROVE Still'
    OBVIOUS
  <2>1. counter % Epoch < Epoch
    BY VotingAssumption
  <2>2. ~ApplyVotes
    BY <2>1, KAssumption, VotingAssumption DEF ApplyVotes, Turn, LastTurn
  <2> QED
    BY <2>2 DEF Next, Step, Wait, CastVotes, CounterAfterVote, Retire, vars
<1> QED
  BY <1>1, <1>2, PTL DEF Spec

-----------------------------------------------------------------------------
(* The tally. *)

(* The ballots of the cycle on which r has votes of value v. *)
Fresh(r, v) == {n \in Voters : CountsFor(n, r, Turn) /\ VoteOf(n) = v}
Stack(A, t, v) == {<<n, t, v>> : n \in A}

LEMMA StackSize ==
  ASSUME NEW A, IsFiniteSet(A), NEW t, NEW v
  PROVE  IsFiniteSet(Stack(A, t, v)) /\ Cardinality(Stack(A, t, v)) = Cardinality(A)
<1> DEFINE f == [n \in A |-> <<n, t, v>>]
<1>1. f \in Bijection(A, Stack(A, t, v))
  BY DEF Bijection, Injection, IsInjective, Surjection, Stack
<1>2. ExistsBijection(A, Stack(A, t, v))
  BY <1>1 DEF ExistsBijection
<1> QED
  BY <1>2, FS_Bijection

LEMMA Together ==
  ASSUME NEW A, IsFiniteSet(A), NEW B, IsFiniteSet(B), A \cap B = {}
  PROVE  Cardinality(A \cup B) = Cardinality(A) + Cardinality(B)
<1>1. Cardinality(A \cup B) = Cardinality(A) + Cardinality(B) - Cardinality({})
  BY FS_Union
<1>2. Cardinality({}) = 0
  BY FS_EmptySet
<1>3. Cardinality(A) \in Nat /\ Cardinality(B) \in Nat
  BY FS_CardinalityType
<1> QED
  BY <1>1, <1>2, <1>3

BallotsPast == IsFiniteSet(ballots) /\ \A b \in ballots : b[2] < Past
Tallied     == \A r \in Router : votes[r] = Cardinality(For(r)) - Cardinality(Against(r))
TallyInv    == BallotsPast /\ Tallied

LEMMA InitTally == Init => TallyInv
<1> SUFFICES ASSUME Init PROVE TallyInv
  OBVIOUS
<1>1. \A r \in Router : For(r) = {} /\ Against(r) = {}
  BY DEF Init, For, Against, Electorate
<1> QED
  BY <1>1, FS_EmptySet DEF Init, TallyInv, BallotsPast, Tallied

(* The votes a router receives in a cycle are those of the ballots that    *)
(* concern it, and these are new.                                          *)
LEMMA CastTally ==
  ASSUME LongEpoch, TypeOK, TallyInv, CastVotes
  PROVE  TallyInv'
<1>1. Turn = Past /\ Past' = Past + 1 /\ Turn \in Coord
  BY CastTurn
<1>2. IsFiniteSet(Voters)
  BY RouterFinite, FS_Subset DEF Voters
<1>3. \A n \in Voters : VoteOf(n) \in {-1, 0, 1}
  BY DEF VoteOf
<1>4. BallotsPast'
  <2> DEFINE P == {n \in Voters : VoteOf(n) = 1}
             Z == {n \in Voters : VoteOf(n) = 0}
             N == {n \in Voters : VoteOf(n) = -1}
  <2>1. ballots' = ballots \cup (Stack(P, Turn, 1) \cup (Stack(Z, Turn, 0) \cup Stack(N, Turn, -1)))
    BY <1>3 DEF CastVotes, Stack
  <2>2. IsFiniteSet(P) /\ IsFiniteSet(Z) /\ IsFiniteSet(N)
    BY <1>2, FS_Subset
  <2>3. /\ IsFiniteSet(Stack(P, Turn, 1)) /\ IsFiniteSet(Stack(Z, Turn, 0))
        /\ IsFiniteSet(Stack(N, Turn, -1))
    BY <2>2, StackSize
  <2>4. IsFiniteSet(ballots')
    BY <2>1, <2>3, FS_Union DEF TallyInv, BallotsPast
  <2>5. ASSUME NEW b \in ballots' PROVE b[2] < Past'
    <3>1. CASE b \in ballots
      BY <1>1, <3>1 DEF TallyInv, BallotsPast, TypeOK, Coord
    <3>2. CASE b \notin ballots
      BY <1>1, <3>2 DEF CastVotes, Coord
    <3> QED
      BY <3>1, <3>2
  <2> QED
    BY <2>4, <2>5 DEF BallotsPast
<1>5. ASSUME NEW r \in Router PROVE votes'[r] = Cardinality(For(r)') - Cardinality(Against(r)')
  <2>1. For(r)' = For(r) \cup Stack(Fresh(r, 1), Turn, 1)
    BY <1>1 DEF CastVotes, For, Electorate, Stack, Fresh, CountsFor, Voters, Row, Col
  <2>2. Against(r)' = Against(r) \cup Stack(Fresh(r, -1), Turn, -1)
    BY <1>1 DEF CastVotes, Against, Electorate, Stack, Fresh, CountsFor, Voters, Row, Col
  <2>3. For(r) \cap Stack(Fresh(r, 1), Turn, 1) = {} /\ Against(r) \cap Stack(Fresh(r, -1), Turn, -1) = {}
    BY <1>1 DEF TallyInv, BallotsPast, For, Against, Electorate, Stack, Coord
  <2>4. /\ IsFiniteSet(For(r)) /\ IsFiniteSet(Against(r))
        /\ IsFiniteSet(Fresh(r, 1)) /\ IsFiniteSet(Fresh(r, -1))
    BY <1>2, FS_Subset DEF TallyInv, BallotsPast, For, Against, Electorate, Fresh
  <2>5. Cardinality(For(r)') = Cardinality(For(r)) + Cardinality(Fresh(r, 1))
    <3> DEFINE S == Stack(Fresh(r, 1), Turn, 1)
    <3>1. IsFiniteSet(S) /\ Cardinality(S) = Cardinality(Fresh(r, 1))
      BY <2>4, StackSize
    <3>2. For(r)' = For(r) \cup S /\ For(r) \cap S = {}
      BY <2>1, <2>3
    <3> HIDE DEF S
    <3>3. Cardinality(For(r) \cup S) = Cardinality(For(r)) + Cardinality(S)
      BY <2>4, <3>1, <3>2, Together
    <3> QED
      BY <3>1, <3>2, <3>3
  <2>6. Cardinality(Against(r)') = Cardinality(Against(r)) + Cardinality(Fresh(r, -1))
    <3> DEFINE S == Stack(Fresh(r, -1), Turn, -1)
    <3>1. IsFiniteSet(S) /\ Cardinality(S) = Cardinality(Fresh(r, -1))
      BY <2>4, StackSize
    <3>2. Against(r)' = Against(r) \cup S /\ Against(r) \cap S = {}
      BY <2>2, <2>3
    <3> HIDE DEF S
    <3>3. Cardinality(Against(r) \cup S) = Cardinality(Against(r)) + Cardinality(S)
      BY <2>4, <3>1, <3>2, Together
    <3> QED
      BY <3>1, <3>2, <3>3
  <2>7. votes'[r] = votes[r] + Received(r)
    BY DEF CastVotes
  <2>8. Received(r) = Cardinality(Fresh(r, 1)) - Cardinality(Fresh(r, -1))
    <3>1. {n \in {m \in Voters : CountsFor(m, r, Turn)} : VoteOf(n) = 1} = Fresh(r, 1)
      BY DEF Fresh
    <3>2. {n \in {m \in Voters : CountsFor(m, r, Turn)} : VoteOf(n) = -1} = Fresh(r, -1)
      BY DEF Fresh
    <3> QED
      BY <3>1, <3>2 DEF Received
  <2>9. votes[r] = Cardinality(For(r)) - Cardinality(Against(r))
    BY DEF TallyInv, Tallied
  <2> QED
    BY <2>4, <2>5, <2>6, <2>7, <2>8, <2>9, FS_CardinalityType
<1> QED
  BY <1>4, <1>5 DEF TallyInv, Tallied

LEMMA TallyStep == LongEpoch /\ TypeOK /\ TallyInv /\ [Next]_vars => TallyInv'
<1> SUFFICES ASSUME LongEpoch, TypeOK, TallyInv, [Next]_vars PROVE TallyInv'
  OBVIOUS
<1>1. CASE (\E n \in Cores, s \in Side : Retire(n, s)) \/ UNCHANGED vars
  <2>1. ballots' = ballots /\ votes' = votes /\ counter' = counter
    BY <1>1 DEF Retire, vars
  <2> QED
    BY <2>1 DEF TallyInv, BallotsPast, Tallied, For, Against, Electorate, Past
<1>2. CASE Wait
  <2>1. Past' = Past /\ ballots' = ballots /\ votes' = votes
    BY <1>2, WaitTurn DEF Wait
  <2> QED
    BY <2>1 DEF TallyInv, BallotsPast, Tallied, For, Against, Electorate
<1>3. CASE CastVotes
  BY <1>3, CastTally
<1>4. CASE ApplyVotes
  <2>1. ballots' = {} /\ \A r \in Router : votes'[r] = 0
    BY <1>4 DEF ApplyVotes, VotesAfterTurn
  <2>2. \A r \in Router : For(r)' = {} /\ Against(r)' = {}
    BY <2>1 DEF For, Against, Electorate
  <2>3. IsFiniteSet({}) /\ Cardinality({}) = 0
    BY FS_EmptySet
  <2>4. BallotsPast'
    BY <2>1, <2>3 DEF BallotsPast
  <2>5. Tallied'
    BY <2>1, <2>2, <2>3 DEF Tallied
  <2> QED
    BY <2>4, <2>5 DEF TallyInv
<1> QED
  BY <1>1, <1>2, <1>3, <1>4 DEF Next, Step

(* _Step adds the ballots of all cycles of a round up: each counts once    *)
(* for every router it concerns, and none of an earlier round is left.     *)
THEOREM VotesTally == ASSUME LongEpoch PROVE Spec => []VotesAreTallied
<1>1. TypeOK /\ TallyInv => VotesAreTallied
  <2> SUFFICES ASSUME TypeOK, TallyInv PROVE ~InRound => ballots = {}
    BY DEF VotesAreTallied, TallyInv, Tallied
  <2>1. ~InRound => Past = 0
    BY LongEpoch, RoundCounter DEF TypeOK, Past
  <2> QED
    BY <2>1 DEF TallyInv, BallotsPast, TypeOK, Coord
<1> QED
  BY <1>1, LongEpoch, InitIInv, IInvStep, InitTally, TallyStep, PTL DEF Spec, IInv

LEMMA MajorityStep ==
  ASSUME TypeOK, TallyInv, [Next]_vars, NEW r \in HasPolicy, policy'[r] # policy[r]
  PROVE  /\ Cardinality(For(r)) # Cardinality(Against(r))
         /\ policy'[r] = IF Cardinality(For(r)) > Cardinality(Against(r))
                         THEN Aggressed(policy[r]) ELSE Regressed(policy[r])
<1>1. ApplyVotes
  BY DEF Next, Step, Retire, Wait, CastVotes, vars
<1>2. policy'[r] = NewPolicy(r) /\ r \in Router
  BY <1>1 DEF ApplyVotes, HasPolicy
<1>3. votes[r] = Cardinality(For(r)) - Cardinality(Against(r))
  BY <1>2 DEF TallyInv, Tallied
<1>4. Cardinality(For(r)) \in Nat /\ Cardinality(Against(r)) \in Nat
  BY FS_Subset, FS_CardinalityType DEF TallyInv, BallotsPast, For, Against, Electorate
<1>5. votes[r] # 0
  BY <1>2 DEF NewPolicy, TypeOK
<1>6. CASE votes[r] > 0
  BY <1>2, <1>3, <1>4, <1>6 DEF NewPolicy
<1>7. CASE votes[r] < 0
  <2>1. ~(votes[r] > 0) /\ ~(Cardinality(For(r)) > Cardinality(Against(r)))
    BY <1>3, <1>4, <1>7
  <2> QED
    BY <1>2, <1>3, <1>4, <1>5, <1>7, <2>1 DEF NewPolicy
<1> QED
  BY <1>2, <1>5, <1>6, <1>7 DEF TypeOK

(* The policy of a router moves (Aggress, Regress) only with the majority  *)
(* of the ballots that concern it, and to the side of the majority.        *)
THEOREM MajorityMoves == ASSUME LongEpoch PROVE Spec => MovesByMajority
<1>1. TypeOK /\ TallyInv /\ [Next]_vars =>
        [\A r \in HasPolicy : policy'[r] # policy[r] =>
           /\ Cardinality(For(r)) # Cardinality(Against(r))
           /\ policy'[r] = IF Cardinality(For(r)) > Cardinality(Against(r))
                           THEN Aggressed(policy[r]) ELSE Regressed(policy[r])]_vars
  BY MajorityStep
<1> QED
  BY <1>1, LongEpoch, InitIInv, IInvStep, InitTally, TallyStep, PTL
     DEF Spec, IInv, MovesByMajority

-----------------------------------------------------------------------------
(* The refinement. *)

LEMMA StepOfRank ==
  ASSUME NEW q \in Policy, NEW d \in {Aggressed(q), Regressed(q), q}
  PROVE  d \in Policy /\ Environment!Rank(d) - Environment!Rank(q) \in -1 .. 1
<1>1. /\ Environment!Rank("gflov") = 2
      /\ Environment!Rank("rflov") = 1
      /\ Environment!Rank("noflov") = 0
  BY DEF Environment!Rank
<1>2. CASE q = "gflov"
  BY <1>1, <1>2 DEF Aggressed, Regressed, Policy
<1>3. CASE q = "rflov"
  BY <1>1, <1>3 DEF Aggressed, Regressed, Policy
<1>4. CASE q = "noflov"
  BY <1>1, <1>4 DEF Aggressed, Regressed, Policy
<1> QED
  BY <1>2, <1>3, <1>4 DEF Policy

Since == IF counter = 0 THEN 0 ELSE counter - 1

LEMMA EnvironmentStep ==
  ASSUME LongEpoch, TypeOK, [Next]_vars
  PROVE  [Environment!Next]_<<policy, Since>>
<1> USE KAssumption, VotingAssumption DEF Since
<1>1. CASE (\E n \in Cores, s \in Side : Retire(n, s)) \/ UNCHANGED vars
  BY <1>1 DEF Retire, vars
<1>2. ASSUME policy' = policy, counter' = counter + 1, counter < Epoch + K
      PROVE  [Environment!Next]_<<policy, Since>>
  <2>1. CASE counter = 0
    BY <1>2, <2>1
  <2>2. CASE counter # 0
    BY <1>2, <2>2 DEF TypeOK, Environment!Next, Environment!Tick
  <2> QED
    BY <2>1, <2>2
<1>3. CASE Wait
  <2>1. policy' = policy /\ counter' = counter + 1 /\ counter < Epoch + K
    BY <1>3, WaitTurn DEF Wait, TypeOK
  <2> QED
    BY <1>2, <2>1
<1>4. CASE CastVotes
  <2>1. policy' = policy /\ counter' = counter + 1 /\ counter < Epoch + K
    BY <1>4, CastTurn DEF CastVotes, TypeOK
  <2> QED
    BY <1>2, <2>1
<1>5. CASE ApplyVotes
  <2>1. Since = Epoch + K - 1 /\ Since' = 0
    BY <1>5, ApplyTurn
  <2>2. ASSUME NEW r \in HasPolicy
        PROVE  /\ policy'[r] \in Policy
               /\ Environment!Rank(policy'[r]) - Environment!Rank(policy[r]) \in -1 .. 1
    <3>1. policy[r] \in Policy
      BY DEF TypeOK
    <3>2. policy'[r] \in {Aggressed(policy[r]), Regressed(policy[r]), policy[r]}
      BY <1>5 DEF ApplyVotes, NewPolicy
    <3> QED
      BY <3>1, <3>2, StepOfRank
  <2>3. policy' \in [HasPolicy -> Environment!Policy]
    BY <1>5, <2>2 DEF ApplyVotes, Environment!Policy, Policy
  <2>4. Environment!Turn
    BY <2>1, <2>2, <2>3 DEF Environment!Turn
  <2> QED
    BY <2>4 DEF Environment!Next
<1> QED
  BY <1>1, <1>3, <1>4, <1>5 DEF Next, Step

(* The votes of FLOVTrafficManager are an environment as the routers need  *)
(* it: a policy moves one step at a time, and between two turns all        *)
(* policies stand still for a whole epoch and round.                       *)
THEOREM VotingImplementsPolicyTurns == ASSUME LongEpoch PROVE Spec => ImplementsPolicyTurns
<1>1. Init => Environment!Init
  BY DEF Init, Environment!Init
<1>2. TypeOK /\ [Next]_vars => [Environment!Next]_<<policy, Since>>
  BY LongEpoch, EnvironmentStep
<1>3. Spec => Environment!Spec
  BY <1>1, <1>2, LongEpoch, VotingTypeCorrect, PTL DEF Spec, Environment!Spec, Since
<1> QED
  BY <1>3 DEF ImplementsPolicyTurns
=============================================================================
