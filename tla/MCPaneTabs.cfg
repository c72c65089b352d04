SPECIFICATION Spec
CONSTANTS
  a = a
  h1 = h1
  h2 = h2
  Hosts = {h1, h2}
  Channels = {a}
  HostOf <- MCHostOf
  Temps = {x}
  TabIds = {t1, t2, t3}
  None = None
  MaxPanes = 3
  MaxIds = 5
  CloseDead = TRUE
INVARIANTS TreeShape
PROPERTIES ActiveTabKept DropKeepsChannel
SYMMETRY Tabs
VIEW View
CHECK_DEADLOCK FALSE
