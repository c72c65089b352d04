SPECIFICATION Spec
CONSTANTS
  first = first
  second = second
  shared = shared
  own = own
  Users = {u, v}
  Ops = {first, second}
  Contexts = {shared, own}
  Settings <- MCSettings
  None = None
  MaxConns = 3
  MaxAsks = 1
VIEW View
SYMMETRY Swap
INVARIANTS NoOrphanPrompt DialogIsLive
PROPERTIES OwnedRouteFixed
CHECK_DEADLOCK FALSE
