SPECIFICATION FairSpec
CONSTANTS
  K = 3
  Gateable <- Ell
  Busy <- Origin
  DrainThreshold = 10
  MaxHid = 8
  MaxDisturbed = 4
  Traffic <- Meeting
INVARIANTS TypeOK NoAdjacentOff OffIsExpected ViewIsCurrent NoFlitCutOff
PROPERTIES OffByConsent ImplementsPowerGating Settles
