SPECIFICATION Spec
CONSTANTS
  Last = 3
  Size = 2
  PacketSize <- LongFirst
  WaitForTail = TRUE
  MaxSwitches = 3
  MaxPackets = 2
INVARIANTS NoError ImageIsExact VcComesBack
