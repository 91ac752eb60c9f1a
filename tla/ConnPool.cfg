\* Two accounts, two calls at once on two connections, of which one is kept.
SPECIFICATION FairSpec
CONSTANTS
  Users = {alice, bob}
  Calls = {x, y}
  Conns = {c1, c2}
  MaxIdle = 1
  None = None
INVARIANT IInv
PROPERTIES
  ListedAtOnce
  ImplementsAccountRows
  CallsEnd
