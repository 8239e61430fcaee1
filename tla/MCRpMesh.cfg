SPECIFICATION Spec
CONSTANTS
  K = 3
  FabricManager <- MCFabricManager
  OffCounts <- AllCounts
INVARIANTS Connected VisitedIsFinal FlitsMeetRouters NoClimbAfterDescent
PROPERTIES ChoiceEnds Closer Delivered
