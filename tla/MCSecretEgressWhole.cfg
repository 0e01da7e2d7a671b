\* A response cut short is read as if it were whole.
CONSTANTS
  Length = 2
  Requests <- RequestsNearGood
  Hosts <- HostsNearGood
SPECIFICATION Spec
INVARIANTS
  EofMeansWhole
