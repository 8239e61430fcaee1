SPECIFICATION Spec
CONSTANTS
  K = 3
  Functions = {"flov", "opt_rflov", "opt_flov", "adaptive_flov"}
  Gate <- UpperRows
  MaxMisroute = 2
  MaxChanges = 1
INVARIANTS StaysInMesh EscapeAcyclic
PROPERTY Delivered
CHECK_DEADLOCK FALSE
