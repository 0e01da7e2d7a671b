SPECIFICATION Spec
CONSTANTS
  Conn = {c1, c2}
CHECK_DEADLOCK FALSE
INVARIANTS
  StopExactlyOnce
  StopAfterDrain
PROPERTIES
  NoRequestAfterStop
  RunEnds
  ImplementsContract
