SPECIFICATION DeploySpec
CONSTANTS
  t1 = t1
  t2 = t2
  u1 = u1
  u2 = u2
  d1 = d1
  d2 = d2
  Targets = {t1, t2}
  Platform = t1
  Users = {u1, u2}
  Others = {cli, d1, d2}
  Cli = cli
  Keys = {k1, k2}
  Casts <- MCCasts
  MaxJobs = 2
  MaxPresses = 2
  MaxBuild = 2
  Concurrency = 1
  None = None
INVARIANTS CacheVouched ShownJobIsLive RunsTrusted
CHECK_DEADLOCK FALSE
