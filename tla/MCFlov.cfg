SPECIFICATION FairSpec
CONSTANTS
  K = 3
  Gateable <- Pair
  Busy <- NoNodes
  DrainThreshold = 18
  BetThreshold = 2
  WakeupThreshold = 2
  Traffic <- FromEast
  MaxDrains = 3
  MaxTurns = 2
  MinEpoch = 4
  NoRouter = NoRouter
INVARIANT TypeOK
PROPERTIES OffByConsent SwitchesInSilence NoFlovComesOn RflovSeparates
