SPECIFICATION Spec
CONSTANTS
  Call = {k1, k2, k3}
  Made = {"config", "write"}
  Grants <- BothHalves
  Snapshots = {TRUE}
  Initial = Initial
  maxGetAttempts = 2
  Answers = {}
CHECK_DEADLOCK FALSE
SYMMETRY Symmetry
INVARIANTS
  SettledWritesKeepOrder
  ReadsSeeSettledWrites
PROPERTIES ImplementsCall
