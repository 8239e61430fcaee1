SPECIFICATION Spec
CONSTANTS
  K = 4
  Gate <- UpperRows
  OffCounts = {2, 9, 10, 11, 12}
  MaxMisroute = 4
INVARIANTS TypeOK OffByRing
PROPERTIES EscapeInOrder Delivered
CHECK_DEADLOCK FALSE
