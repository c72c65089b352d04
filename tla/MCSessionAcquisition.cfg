SPECIFICATION FairSpec
CONSTANTS
  Clients = {c1, c2}
  Spawns = {s1, s2}
  Attempts = {r1, r2}
  Sessions = {x1}
  None = None
INVARIANTS NoStrandedFollower LeaseAccounting
PROPERTIES ImplementsLifecycle SpawnSettles
CHECK_DEADLOCK FALSE
