----------------------------- MODULE PolicyTurns -----------------------------
(***************************************************************************)
(* What the routers may rely on about their fly-over policies: a policy    *)
(* moves one step at a time, and all policies stand still for a minimal    *)
(* number of cycles between two turns.  Module Voting implements this      *)
(* specification; module Flov has it as its environment.                   *)
(***************************************************************************)
EXTENDS Integers

CONSTANTS
  Routers,   \* the routers that have a policy
  MinEpoch   \* the least number of cycles between two turns, a number

VARIABLES
  policy,  \* the policy of every router
  since    \* cycles since the last turn, up to MinEpoch

Policy  == {"gflov", "rflov", "noflov"}
Rank(q) == CASE q = "gflov" -> 2 [] q = "rflov" -> 1 [] q = "noflov" -> 0

Init ==
  /\ policy = [r \in Routers |-> "gflov"]
  /\ since = 0

Tick ==
  /\ since' = IF since = MinEpoch THEN since ELSE since + 1
  /\ UNCHANGED policy

Turn ==
  /\ since = MinEpoch
  /\ since' = 0
  /\ policy' \in [Routers -> Policy]
  /\ \A r \in Routers : Rank(policy'[r]) - Rank(policy[r]) \in -1 .. 1

Next == Tick \/ Turn

Spec == Init /\ [][Next]_<<policy, since>>
=============================================================================
