SPECIFICATION FairSpec
CONSTANTS
  K = 3
  Gateable <- RowOf3
  Busy <- NoNodes
  DrainThreshold = 10
  BetThreshold = 2
  WakeupThreshold = 2
  Traffic <- NoLinks
  MaxDrains = 2
  MaxTurns = 3
  MinEpoch = 4
  NoRouter = NoRouter
PROPERTY NoFlovComesOn
