SPECIFICATION Spec
CONSTANTS
  Ids = {i1}
  Procs = {p1, p2}
  Conns <- ConnNumbers
  None = None
  MaxOutput = 3
  MaxQueue = 2
  MaxRequests = 3
  MaxEvents = 5
INVARIANTS OutputInOrder ActiveIsNewest CleanExit
SYMMETRY Symmetry
CHECK_DEADLOCK FALSE
