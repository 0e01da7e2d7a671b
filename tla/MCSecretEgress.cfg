CONSTANTS
  Length = 2
  Requests <- RequestsNearGood
  Hosts <- HostsNearGood
SPECIFICATION Spec
INVARIANTS
  ContextFollowsBody
  RefusalKeepsItsCode
PROPERTIES
  GivingUpReachesUpstream
  DeadlinesEndCalls
  ImplementsUpstreamCall
