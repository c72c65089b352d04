SPECIFICATION FairSpec
CONSTANTS
  Clients = {c1, c2}
  Calls = {a1, a2}
  None = None
INVARIANTS LockViewsAgree SubscribersTracked
PROPERTIES CallsSettle
CHECK_DEADLOCK FALSE
