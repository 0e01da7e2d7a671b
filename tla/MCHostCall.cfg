SPECIFICATION Spec
CONSTANTS
  Call = {k1}
  Made = {"read", "config", "write", "audit", "single"}
  Grants <- AllGrants
  Snapshots = {TRUE, FALSE}
  Initial = Initial
  maxGetAttempts = 3
  Answers <- MCAnswers
CHECK_DEADLOCK FALSE
PROPERTIES
  NothingSentInVain
  EveryCallReturns
