SPECIFICATION Spec
CONSTANTS
  a = a
  b = b
  g = g
  k = k
  h1 = h1
  h2 = h2
  Hosts = {h1, h2}
  Channels = {a, b}
  HostOf <- MCHostOf
  Groups = {g, k}
  GroupOf <- MCGroupOf
  Casts <- MCCasts
  None = None
  MaxFetch = 3
  MaxChanges = 2
  MaxDrops = 1
  MaxCalls = 1
INVARIANTS CreatedIsListed NoForeignRows
SYMMETRY Swap
VIEW View
CHECK_DEADLOCK FALSE
