SPECIFICATION Spec
CONSTANTS
  K = 3
  Epoch = 4
  Cores <- Column
INVARIANTS TypeOK VotesAreTallied EveryNodeIsHeard
PROPERTIES MovesByMajority ImplementsPolicyTurns RoundsEnd
