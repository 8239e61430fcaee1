SPECIFICATION Spec
CONSTANTS
  K = 3
  Gateable <- EastPair
  Busy <- NoNodes
  DrainThreshold = 10
  BetThreshold = 2
  WakeupThreshold = 2
  Traffic <- FromWest
  MaxDrains = 2
  MaxTurns = 2
  MinEpoch = 4
  NoRouter = NoRouter
INVARIANT HandshakesExpected
