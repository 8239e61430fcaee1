SPECIFICATION Spec
CONSTANTS
  K = 3
  Gateable <- RowOf3
  Busy <- Corner
  DrainThreshold = 18
  BetThreshold = 2
  WakeupThreshold = 2
  Traffic <- NoLinks
  MaxDrains = 1
  MaxTurns = 3
  MinEpoch = 4
  NoRouter = NoRouter
INVARIANTS HandshakesExpected DownIsCurrent LogicalIsCurrent
