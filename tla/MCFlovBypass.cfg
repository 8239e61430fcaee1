SPECIFICATION Spec
CONSTANTS
  K = 3
  Gateable <- Inner
  Busy <- NoNodes
  DrainThreshold = 10
  BetThreshold = 2
  WakeupThreshold = 2
  Traffic <- Across
  MaxDrains = 1
  MaxTurns = 2
  MinEpoch = 4
  NoRouter = NoRouter
INVARIANT BypassStartsEmpty
