SPECIFICATION Spec
CONSTANTS
  alice = alice
  bob = bob
  i1 = i1
  i2 = i2
  i3 = i3
  User = {alice, bob}
  Invocation = {i1, i2, i3}
  Call = {k1}
  UserOf <- MCUserOf
  NoUser = NoUser
  NoToken = NoToken
  Forged = Forged
CHECK_DEADLOCK FALSE
INVARIANTS
  TokenDiesWithRequest
PROPERTIES
  RevocationReachesCalls
  ImplementsDelegation
