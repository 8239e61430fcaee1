SPECIFICATION Spec
CONSTANTS
  Last = 2
  Size = 2
  PacketSize <- Long
  WaitForTail = FALSE
  MaxSwitches = 2
  MaxPackets = 1
INVARIANTS VcComesBack
